---- MODULE Spec2Model ----
(***************************************************************************)
(* Model of the frame cache and playback-position engine of DolphinBit     *)
(* (src/core/video_handler.py, class VideoHandler) together with the one   *)
(* place of the UI that writes the cache configuration                     *)
(* (src/ui/main_window.py, VideoTrimmerApp._load_settings).                *)
(*                                                                         *)
(* The decoder (cv2.VideoCapture) is an external library.  It is modelled  *)
(* as a sequential reader with a position: read() yields the frame at the  *)
(* position and advances it by one, or fails and leaves it; set() moves    *)
(* the position; a capture that never opened reports position 0, ignores   *)
(* set() and fails every read().  A frame of a video is either decodable   *)
(* or not, for the whole session.  Opening a file is a series of            *)
(* constructor calls, one per backend, each of which opens, reports not    *)
(* opened, or raises.                                                      *)
(*                                                                         *)
(* Frames are buffers with an identity (buf) so that aliasing between a    *)
(* frame handed to the caller and a cache entry is observable.             *)
(***************************************************************************)
EXTENDS Integers, Sequences, FiniteSets, TLC

\* ------------------------------------------------------------------ bounds
MaxCap == 3            \* cache capacities explored: 1 .. MaxCap
FrameCountA == 33      \* frames of video "A" (longer than the warm-up window)
FrameCountB == 8       \* frames of video "B" (shorter than every window)
BadFrameB == 6         \* the one undecodable frame of video "B"
Beyond == 1            \* requested indices run up to frame_count + Beyond
ShortVideo == 10       \* videos up to this length are probed at every index
Probes == {0, 2, 7, 20}

\* ------------------------------------------------------- program constants
WarmupFrames == 30     \* load_video: _prefetch_frames(0, min(30, frame_count))
AdvanceAhead == 10     \* get_current_frame: next_end = min(n + 10, frame_count)
SeekBehind == 5        \* max(0, frame_number - 5)
PositionAhead == 15    \* get_frame_at_position: min(frame_number + 15, ...)
SeekAhead == 20        \* seek: min(frame_number + 20, frame_count)

\* ------------------------------------------------------------ the videos
Videos == {"A", "B", "X"}                   \* "X" is a file no backend opens
Openable(v) == v \in {"A", "B"}
FrameCountOf(v) == IF v = "A" THEN FrameCountA ELSE IF v = "B" THEN FrameCountB ELSE 0
BadFramesOf(v) == IF v = "B" THEN {BadFrameB} ELSE {}
\* what a decoder does with a position below zero: the decoder of "A" moves to
\* frame 0, the decoder of "B" keeps the number and finds no frame there
ClampsNegative(v) == v = "A"

\* backends_to_try, in the order of the list
Backends == <<"CAP_FFMPEG", "CAP_MSMF", "CAP_DSHOW", "CAP_ANY">>
Default == Len(Backends) + 1     \* the call without a backend comes after them

\* What the capture constructor does for a file, backend by backend and then
\* without a backend: "opens", "closed" (a capture that reports not opened) or
\* "raises".  A file that can be opened opens at the first backend, at a later
\* one after failures of both kinds, or only without a backend; a file that
\* cannot be opened fails everywhere.  The call without a backend, which the
\* code makes outside any try, is taken not to raise.
Trials(v) ==
    IF Openable(v)
    THEN {[ranked |-> <<"opens", "opens", "opens", "opens">>, default |-> "opens"],
          [ranked |-> <<"closed", "raises", "opens", "opens">>, default |-> "opens"],
          [ranked |-> <<"raises", "closed", "closed", "closed">>, default |-> "opens"]}
    ELSE {[ranked |-> <<"closed", "raises", "closed", "closed">>, default |-> "closed"],
          [ranked |-> <<"raises", "raises", "raises", "closed">>, default |-> "closed"]}
OutcomeCode(o) == IF o = "opens" THEN 1 ELSE IF o = "closed" THEN 0 ELSE -1

\* always TRUE; comparing a value makes the model checker compute it at this point
Evaluated(v) == v = v

Min(a, b) == IF a < b THEN a ELSE b
Max(a, b) == IF a > b THEN a ELSE b

\* ------------------------------------------------------------ the state
VARIABLES
    cap,            \* self.cap: the decoder handle [held, opened, vid, pos]
    frame_count,    \* self.frame_count
    current_video,  \* self.current_video
    frame_cache,    \* self.frame_cache: OrderedDict as a sequence of [key, frame], oldest first
    cache_size,     \* self.cache_size
    cache_enabled,  \* self.cache_enabled
    ret,            \* the frame object the last call handed to the caller
    last,           \* observation of the call that just returned: what was asked, what the
                    \* decoder and the cache were made to do; Idle between calls
    ref,            \* a reference LRU cache (keys, oldest first) fed the same touches
    twin,           \* a second handler with the cache disabled, driven by the same calls
    twin_ret,       \* what the twin returned to the same call
    soft_failed     \* the call before the one now made or observed was a frame access on
                    \* a loaded video that found no frame at the decoder (kept by Remember)

\* VideoExporter, the export thread, the thread that cancels, and the part of
\* the operating system they act on
VARIABLES
    cancel_requested,   \* self.cancel_requested
    process,            \* self.process: 0 for None, else the number of a launched process
    files,              \* the paths that exist (os.path.exists), each a sequence of characters
    procs,              \* the external processes launched so far, in launch order
    run,                \* the export thread: where it is in do_export / export_segments and
                        \* its locals
    canceller,          \* the thread inside cancel_export: where it is and what it holds
    status,             \* the messages passed to main_window.update_status, in order
    shown               \* the dialogs do_export queued for the export run

\* VideoTrimmerApp: the segment list, the timeline widget and the frame on
\* screen
VARIABLES
    trim_segments,      \* the contents of the list self.trim_segments is bound to
    segments_list,      \* the texts of the items of the QListWidget, top to bottom
    segments,           \* the list the export thread was handed: whether it is the very
                        \* list self.trim_segments is bound to, and its contents if not
    timeline,           \* TimelineWidget: duration, current_position, in_point, out_point
    video_frame         \* the frame video_player.video_frame shows

handler_vars == <<cap, frame_count, current_video, frame_cache, cache_size, cache_enabled,
                  ret, last, ref, twin, twin_ret, soft_failed>>
exporter_vars == <<cancel_requested, process, files, procs, run, canceller, status, shown>>
window_vars == <<trim_segments, segments_list, segments, timeline, video_frame>>
vars == <<cap, frame_count, current_video, frame_cache, cache_size, cache_enabled,
          ret, last, ref, twin, twin_ret, soft_failed,
          cancel_requested, process, files, procs, run, canceller, status, shown,
          trim_segments, segments_list, segments, timeline, video_frame>>

NoCap == [held |-> FALSE, opened |-> FALSE, vid |-> "none", pos |-> 0]
NoFrame == [buf |-> 0, vid |-> "none", idx |-> -1, dirty |-> FALSE]

\* the frame a fresh decode of index i of video v produces (buffer identity aside)
Decoded(v, i) == [vid |-> v, idx |-> i, dirty |-> FALSE]
Pixels(f) == [vid |-> f.vid, idx |-> f.idx, dirty |-> f.dirty]

\* ------------------------------------------------------- handler records
\* The operators below work on a record h of the handler's fields plus the
\* bookkeeping of the call in progress (held: buffers alive in locals;
\* log: decoder and cache events; peak: largest cache size seen).
Keys(c) == [i \in 1..Len(c) |-> c[i].key]
KeySet(c) == {c[i].key : i \in 1..Len(c)}
Bufs(c) == {c[i].frame.buf : i \in 1..Len(c)}
IndexOf(c, k) == CHOOSE i \in 1..Len(c) : c[i].key = k
Without(c, i) == SubSeq(c, 1, i - 1) \o SubSeq(c, i + 1, Len(c))

Event(h, c, a, b) == [h EXCEPT !.log = Append(@, [c |-> c, a |-> a, b |-> b])]
SeePeak(h) == [h EXCEPT !.peak = Max(@, Len(h.frame_cache))]

\* a buffer identity no live object has
Fresh(h) ==
    LET used == Bufs(h.frame_cache) \cup h.held
        n == Cardinality(used) + 1
    IN CHOOSE b \in 1..n : b \notin used /\ \A c \in 1..(b - 1) : c \in used

Hold(h, f) == [h EXCEPT !.held = @ \cup {f.buf}]

\* ndarray.copy(): same pixels, a new buffer
copy(h, f) == [f EXCEPT !.buf = Fresh(Hold(h, f))]

\* ------------------------------------------------------------ the decoder
\* int(self.cap.get(cv2.CAP_PROP_POS_FRAMES))
cap_get(h) == IF h.cap.opened THEN h.cap.pos ELSE 0

\* self.cap.set(cv2.CAP_PROP_POS_FRAMES, n)
cap_set(h, n) ==
    LET h1 == Event(h, "set", n, 0)
    IN IF h.cap.opened
       THEN [h1 EXCEPT !.cap.pos = IF n < 0 /\ ClampsNegative(h.cap.vid) THEN 0 ELSE n]
       ELSE h1

ReadOk(c) ==
    /\ c.opened
    /\ c.pos >= 0
    /\ c.pos < FrameCountOf(c.vid)
    /\ c.pos \notin BadFramesOf(c.vid)

\* ret, frame = self.cap.read()
cap_read(h) ==
    IF ReadOk(h.cap)
    THEN LET f == [buf |-> Fresh(h), vid |-> h.cap.vid, idx |-> h.cap.pos, dirty |-> FALSE]
         IN [ok |-> TRUE, frame |-> f,
             h |-> [Event(h, "read", h.cap.pos, 1) EXCEPT !.cap.pos = @ + 1]]
    ELSE [ok |-> FALSE, frame |-> NoFrame, h |-> Event(h, "read", cap_get(h), 0)]

\* ------------------------------------------------- the reference LRU cache
\* Frame Cache contract: get marks the entry most recently used; put of a new
\* key at capacity evicts the least recently used entry first.
RefGet(r, k) ==
    IF \E i \in 1..Len(r) : r[i] = k
    THEN LET i == CHOOSE j \in 1..Len(r) : r[j] = k
         IN Append(SubSeq(r, 1, i - 1) \o SubSeq(r, i + 1, Len(r)), k)
    ELSE r

RefPut(r, k, capacity) ==
    IF \E i \in 1..Len(r) : r[i] = k THEN RefGet(r, k)
    ELSE IF Len(r) >= capacity THEN Append(Tail(r), k)
    ELSE Append(r, k)

\* ------------------------------------------------------------- the cache
\* _add_to_cache with the capacity test off by one (> for >=)
_add_to_cache_late_eviction(h, frame_num, frame) ==
    IF ~h.cache_enabled THEN h
    ELSE LET full == Len(h.frame_cache) > h.cache_size
             oldest == Head(h.frame_cache).key
             h1 == IF full
                   THEN Event([h EXCEPT !.frame_cache = Tail(@)], "evict", oldest, 0)
                   ELSE h
             c == h1.frame_cache
             stored == IF frame_num \in KeySet(c)
                       THEN [c EXCEPT ![IndexOf(c, frame_num)].frame = frame]
                       ELSE Append(c, [key |-> frame_num, frame |-> frame])
         IN SeePeak(Event([h1 EXCEPT !.frame_cache = stored], "put", frame_num, 0))

\* VideoHandler._add_to_cache
_add_to_cache(h, frame_num, frame) ==
    IF ~h.cache_enabled THEN h
    ELSE LET full == Len(h.frame_cache) >= h.cache_size
             oldest == Head(h.frame_cache).key
             h1 == IF full
                   THEN Event([h EXCEPT !.frame_cache = Tail(@)], "evict", oldest, 0)
                   ELSE h
             c == h1.frame_cache
             stored == IF frame_num \in KeySet(c)
                       THEN [c EXCEPT ![IndexOf(c, frame_num)].frame = frame]
                       ELSE Append(c, [key |-> frame_num, frame |-> frame])
         IN SeePeak(Event([h1 EXCEPT !.frame_cache = stored], "put", frame_num, 0))

\* _get_from_cache that leaves a hit entry where it is (first-in first-out)
_get_from_cache_no_touch(h, frame_num) ==
    IF ~h.cache_enabled THEN [h |-> h, frame |-> NoFrame]
    ELSE IF frame_num \in KeySet(h.frame_cache)
    THEN [h |-> Event(h, "hit", frame_num, 0),
          frame |-> h.frame_cache[IndexOf(h.frame_cache, frame_num)].frame]
    ELSE [h |-> h, frame |-> NoFrame]

\* _get_from_cache that looks the frame up also when the cache is disabled
_get_from_cache_ignores_disabled(h, frame_num) ==
    IF frame_num \in KeySet(h.frame_cache)
    THEN LET i == IndexOf(h.frame_cache, frame_num)
             e == h.frame_cache[i]
         IN [h |-> Event([h EXCEPT !.frame_cache = Append(Without(@, i), e)],
                         "hit", frame_num, 0),
             frame |-> e.frame]
    ELSE [h |-> h, frame |-> NoFrame]

\* VideoHandler._get_from_cache: [h, frame], frame = NoFrame for None
_get_from_cache(h, frame_num) ==
    IF ~h.cache_enabled THEN [h |-> h, frame |-> NoFrame]
    ELSE IF frame_num \in KeySet(h.frame_cache)
    THEN LET i == IndexOf(h.frame_cache, frame_num)
             e == h.frame_cache[i]
         IN [h |-> Event([h EXCEPT !.frame_cache = Append(Without(@, i), e)],
                         "hit", frame_num, 0),
             frame |-> e.frame]
    ELSE [h |-> h, frame |-> NoFrame]

\* ----------------------------------------------------------- the prefetch
\* the loop body without the seek to frame_num before the read
SweepStep_no_seek(h, frame_num) ==
    IF frame_num \in KeySet(h.frame_cache) THEN Event(h, "skip", frame_num, 0)
    ELSE LET r == cap_read(h)
         IN IF r.ok THEN _add_to_cache(r.h, frame_num, copy(r.h, r.frame)) ELSE r.h

\* the loop body looking a cached index up, which marks it most recently used
SweepStep_touches_cached(h, frame_num) ==
    IF frame_num \in KeySet(h.frame_cache)
    THEN _get_from_cache(Event(h, "skip", frame_num, 0), frame_num).h
    ELSE LET r == cap_read(cap_set(h, frame_num))
         IN IF r.ok THEN _add_to_cache(r.h, frame_num, copy(r.h, r.frame)) ELSE r.h

\* one iteration of the for loop of VideoHandler._prefetch_frames
SweepStep(h, frame_num) ==
    IF frame_num \in KeySet(h.frame_cache) THEN Event(h, "skip", frame_num, 0)
    ELSE LET r == cap_read(cap_set(h, frame_num))
         IN IF r.ok THEN _add_to_cache(r.h, frame_num, copy(r.h, r.frame)) ELSE r.h

\* the for loop leaving at the first read that fails (break in place of skip)
RECURSIVE Sweep_stops_at_failure(_, _, _)
Sweep_stops_at_failure(h, start, stop) ==
    IF start >= stop THEN h
    ELSE IF start + 1 = stop THEN SweepStep(h, start)
    ELSE LET mid == (start + stop) \div 2
             first == Sweep_stops_at_failure(h, start, mid)
             e == first.log[Len(first.log)]
         IN IF e.c = "read" /\ e.b = 0 THEN first
            ELSE Sweep_stops_at_failure(first, mid, stop)

\* the for loop over range(start, stop): the iterations run in ascending order
\* (the range is split in halves, the first half evaluated before the second
\* starts, only to keep the evaluation shallow)
RECURSIVE Sweep(_, _, _)
Sweep(h, start, stop) ==
    IF start >= stop THEN h
    ELSE IF start + 1 = stop THEN SweepStep(h, start)
    ELSE LET mid == (start + stop) \div 2
             first == Sweep(h, start, mid)
         IN IF Evaluated(first) THEN Sweep(first, mid, stop) ELSE first

\* _prefetch_frames that does not restore the decoder position
_prefetch_frames_no_restore(h, start_frame, end_frame) ==
    LET h0 == Event(h, "prefetch", start_frame, end_frame)
    IN IF ~h.cache_enabled \/ ~h.cap.held THEN h0
       ELSE Sweep(h0, start_frame, Min(end_frame, h0.frame_count))

\* _prefetch_frames that leaves the decoder at the start of the window
_prefetch_frames_restores_start(h, start_frame, end_frame) ==
    LET h0 == Event(h, "prefetch", start_frame, end_frame)
    IN IF ~h.cache_enabled \/ ~h.cap.held THEN h0
       ELSE cap_set(Sweep(h0, start_frame, Min(end_frame, h0.frame_count)), start_frame)

\* VideoHandler._prefetch_frames
_prefetch_frames(h, start_frame, end_frame) ==
    LET h0 == Event(h, "prefetch", start_frame, end_frame)
    IN IF ~h.cache_enabled \/ ~h.cap.held THEN h0
       ELSE LET current_pos == cap_get(h0)
            IN cap_set(Sweep(h0, start_frame, Min(end_frame, h0.frame_count)), current_pos)

\* ------------------------------------------------------ public operations
\* the backend loop that goes on after a backend has opened and keeps the
\* capture of the last one that opens
RECURSIVE TryBackends_keeps_last(_, _, _, _)
TryBackends_keeps_last(h, video_path, tries, k) ==
    IF k > Len(Backends) THEN h
    ELSE LET o == tries.ranked[k]
             h1 == Event(h, "open", k, OutcomeCode(o))
         IN IF o = "opens"
            THEN TryBackends_keeps_last(
                     [h1 EXCEPT !.cap = [held |-> TRUE, opened |-> TRUE,
                                         vid |-> video_path, pos |-> 0]],
                     video_path, tries, k + 1)
            ELSE IF o = "closed"
            THEN TryBackends_keeps_last(Event(h1, "release", k, 0), video_path, tries, k + 1)
            ELSE TryBackends_keeps_last(h1, video_path, tries, k + 1)

\* load_video, the loop over backends_to_try from the k-th backend on: the
\* first capture that reports opened is kept and the loop left; one that does
\* not is released; a constructor that raises is passed over
RECURSIVE TryBackends(_, _, _, _)
TryBackends(h, video_path, tries, k) ==
    IF k > Len(Backends) THEN h
    ELSE LET o == tries.ranked[k]
             h1 == Event(h, "open", k, OutcomeCode(o))
         IN IF o = "opens"
            THEN [h1 EXCEPT !.cap = [held |-> TRUE, opened |-> TRUE,
                                     vid |-> video_path, pos |-> 0]]
            ELSE IF o = "closed"
            THEN TryBackends(Event(h1, "release", k, 0), video_path, tries, k + 1)
            ELSE TryBackends(h1, video_path, tries, k + 1)

\* load_video, self.cap = None, the backend loop and the fallback
open_capture(h, video_path, tries) ==
    LET h1 == TryBackends([h EXCEPT !.cap = NoCap], video_path, tries, 1)
    IN IF h1.cap.held THEN h1
       ELSE [Event(h1, "open", Default, OutcomeCode(tries.default)) EXCEPT
                !.cap = [held |-> TRUE, opened |-> tries.default = "opens",
                         vid |-> video_path, pos |-> 0]]

\* load_video that keeps the previous video's cache
load_video_keeps_cache(h, video_path, tries) ==
    LET h1 == IF h.cap.held THEN Event(h, "release", 0, 0) ELSE h
        h2 == open_capture(h1, video_path, tries)
    IN IF ~h2.cap.opened THEN [h |-> h2, ok |-> FALSE]
       ELSE LET h3 == [h2 EXCEPT !.frame_count = FrameCountOf(video_path),
                                 !.current_video = video_path]
            IN [h |-> _prefetch_frames(h3, 0, Min(WarmupFrames, h3.frame_count)),
                ok |-> TRUE]

\* load_video that warms the cache over the whole video
load_video_warms_whole_video(h, video_path, tries) ==
    LET h1 == IF h.cap.held THEN Event(h, "release", 0, 0) ELSE h
        h2 == open_capture([Event(h1, "clear", 0, 0) EXCEPT !.frame_cache = <<>>],
                           video_path, tries)
    IN IF ~h2.cap.opened THEN [h |-> h2, ok |-> FALSE]
       ELSE LET h3 == [h2 EXCEPT !.frame_count = FrameCountOf(video_path),
                                 !.current_video = video_path]
            IN [h |-> _prefetch_frames(h3, 0, h3.frame_count), ok |-> TRUE]

\* load_video that does not test whether the capture opened
load_video_ignores_open_test(h, video_path, tries) ==
    LET h1 == IF h.cap.held THEN Event(h, "release", 0, 0) ELSE h
        h2 == open_capture([Event(h1, "clear", 0, 0) EXCEPT !.frame_cache = <<>>],
                           video_path, tries)
        h3 == [h2 EXCEPT !.frame_count = FrameCountOf(video_path),
                         !.current_video = video_path]
    IN [h |-> _prefetch_frames(h3, 0, Min(WarmupFrames, h3.frame_count)), ok |-> TRUE]

\* VideoHandler.load_video: [h, ok], ok = FALSE for the None result
load_video(h, video_path, tries) ==
    LET h1 == IF h.cap.held THEN Event(h, "release", 0, 0) ELSE h
        h2 == open_capture([Event(h1, "clear", 0, 0) EXCEPT !.frame_cache = <<>>],
                           video_path, tries)
    IN IF ~h2.cap.opened THEN [h |-> h2, ok |-> FALSE]
       ELSE LET h3 == [h2 EXCEPT !.frame_count = FrameCountOf(video_path),
                                 !.current_video = video_path]
            IN [h |-> _prefetch_frames(h3, 0, Min(WarmupFrames, h3.frame_count)),
                ok |-> TRUE]

\* get_current_frame that hands out the cached frame itself on a hit
get_current_frame_shares_buffer(h) ==
    IF ~h.cap.held THEN [h |-> h, frame |-> NoFrame]
    ELSE LET current_frame_num == cap_get(h)
             g == _get_from_cache(h, current_frame_num)
         IN IF g.frame # NoFrame
            THEN LET r == cap_read(g.h)
                 IN [h |-> r.h, frame |-> g.frame]
            ELSE LET r == cap_read(h)
                 IN IF r.ok
                    THEN LET h1 == Hold(r.h, r.frame)
                             h2 == _add_to_cache(h1, current_frame_num, copy(h1, r.frame))
                             next_start == current_frame_num + 1
                             next_end == Min(current_frame_num + AdvanceAhead, h2.frame_count)
                         IN [h |-> IF next_end > next_start
                                   THEN _prefetch_frames(h2, next_start, next_end)
                                   ELSE h2,
                             frame |-> r.frame]
                    ELSE [h |-> r.h, frame |-> NoFrame]

\* get_current_frame that skips the discarded read on a hit
get_current_frame_no_advance(h) ==
    IF ~h.cap.held THEN [h |-> h, frame |-> NoFrame]
    ELSE LET current_frame_num == cap_get(h)
             g == _get_from_cache(h, current_frame_num)
         IN IF g.frame # NoFrame
            THEN [h |-> g.h, frame |-> copy(g.h, g.frame)]
            ELSE LET r == cap_read(h)
                 IN IF r.ok
                    THEN LET h1 == Hold(r.h, r.frame)
                             h2 == _add_to_cache(h1, current_frame_num, copy(h1, r.frame))
                             next_start == current_frame_num + 1
                             next_end == Min(current_frame_num + AdvanceAhead, h2.frame_count)
                         IN [h |-> IF next_end > next_start
                                   THEN _prefetch_frames(h2, next_start, next_end)
                                   ELSE h2,
                             frame |-> r.frame]
                    ELSE [h |-> r.h, frame |-> NoFrame]

\* get_current_frame that gives the decoder up when a read fails
get_current_frame_drops_decoder(h) ==
    IF ~h.cap.held THEN [h |-> h, frame |-> NoFrame]
    ELSE LET current_frame_num == cap_get(h)
             g == _get_from_cache(h, current_frame_num)
         IN IF g.frame # NoFrame
            THEN LET r == cap_read(g.h)
                 IN [h |-> r.h, frame |-> copy(r.h, g.frame)]
            ELSE LET r == cap_read(h)
                 IN IF r.ok
                    THEN LET h1 == Hold(r.h, r.frame)
                             h2 == _add_to_cache(h1, current_frame_num, copy(h1, r.frame))
                             next_start == current_frame_num + 1
                             next_end == Min(current_frame_num + AdvanceAhead, h2.frame_count)
                         IN [h |-> IF next_end > next_start
                                   THEN _prefetch_frames(h2, next_start, next_end)
                                   ELSE h2,
                             frame |-> r.frame]
                    ELSE [h |-> [r.h EXCEPT !.cap.opened = FALSE], frame |-> NoFrame]

\* VideoHandler.get_current_frame: [h, frame]
get_current_frame(h) ==
    IF ~h.cap.held THEN [h |-> h, frame |-> NoFrame]
    ELSE LET current_frame_num == cap_get(h)
             g == _get_from_cache(h, current_frame_num)
         IN IF g.frame # NoFrame
            THEN LET r == cap_read(g.h)
                 IN [h |-> r.h, frame |-> copy(r.h, g.frame)]
            ELSE LET r == cap_read(h)
                 IN IF r.ok
                    THEN LET h1 == Hold(r.h, r.frame)
                             h2 == _add_to_cache(h1, current_frame_num, copy(h1, r.frame))
                             next_start == current_frame_num + 1
                             next_end == Min(current_frame_num + AdvanceAhead, h2.frame_count)
                         IN [h |-> IF next_end > next_start
                                   THEN _prefetch_frames(h2, next_start, next_end)
                                   ELSE h2,
                             frame |-> r.frame]
                    ELSE [h |-> r.h, frame |-> NoFrame]

\* get_frame_at_position that ends with the window of seek (20 ahead, not 15)
get_frame_at_position_seek_window(h, frame_number) ==
    IF ~h.cap.held THEN [h |-> h, frame |-> NoFrame]
    ELSE LET g == _get_from_cache(h, frame_number)
         IN IF g.frame # NoFrame
            THEN [h |-> cap_set(g.h, frame_number + 1), frame |-> copy(g.h, g.frame)]
            ELSE LET r == get_current_frame(cap_set(h, frame_number))
                     prefetch_start == Max(0, frame_number - SeekBehind)
                     prefetch_end == Min(frame_number + SeekAhead, r.h.frame_count)
                 IN [h |-> _prefetch_frames(r.h, prefetch_start, prefetch_end),
                     frame |-> r.frame]

\* get_frame_at_position that on a hit seeks to the frame and reads it to advance
get_frame_at_position_hit_reads(h, frame_number) ==
    IF ~h.cap.held THEN [h |-> h, frame |-> NoFrame]
    ELSE LET g == _get_from_cache(h, frame_number)
         IN IF g.frame # NoFrame
            THEN [h |-> cap_read(cap_set(g.h, frame_number)).h, frame |-> copy(g.h, g.frame)]
            ELSE LET r == get_current_frame(cap_set(h, frame_number))
                     prefetch_start == Max(0, frame_number - SeekBehind)
                     prefetch_end == Min(frame_number + PositionAhead, r.h.frame_count)
                 IN [h |-> _prefetch_frames(r.h, prefetch_start, prefetch_end),
                     frame |-> r.frame]

\* get_frame_at_position without the test for a decoder handle
get_frame_at_position_unguarded(h, frame_number) ==
    LET g == _get_from_cache(h, frame_number)
    IN IF g.frame # NoFrame
       THEN [h |-> cap_set(g.h, frame_number + 1), frame |-> copy(g.h, g.frame)]
       ELSE LET r == get_current_frame(cap_set(h, frame_number))
                prefetch_start == Max(0, frame_number - SeekBehind)
                prefetch_end == Min(frame_number + PositionAhead, r.h.frame_count)
            IN [h |-> _prefetch_frames(r.h, prefetch_start, prefetch_end),
                frame |-> r.frame]

\* get_frame_at_position whose window reaches 15 frames back (not 5)
get_frame_at_position_wide_behind(h, frame_number) ==
    IF ~h.cap.held THEN [h |-> h, frame |-> NoFrame]
    ELSE LET g == _get_from_cache(h, frame_number)
         IN IF g.frame # NoFrame
            THEN [h |-> cap_set(g.h, frame_number + 1), frame |-> copy(g.h, g.frame)]
            ELSE LET r == get_current_frame(cap_set(h, frame_number))
                     prefetch_start == Max(0, frame_number - PositionAhead)
                     prefetch_end == Min(frame_number + PositionAhead, r.h.frame_count)
                 IN [h |-> _prefetch_frames(r.h, prefetch_start, prefetch_end),
                     frame |-> r.frame]

\* VideoHandler.get_frame_at_position: [h, frame]
get_frame_at_position(h, frame_number) ==
    IF ~h.cap.held THEN [h |-> h, frame |-> NoFrame]
    ELSE LET g == _get_from_cache(h, frame_number)
         IN IF g.frame # NoFrame
            THEN [h |-> cap_set(g.h, frame_number + 1), frame |-> copy(g.h, g.frame)]
            ELSE LET r == get_current_frame(cap_set(h, frame_number))
                     prefetch_start == Max(0, frame_number - SeekBehind)
                     prefetch_end == Min(frame_number + PositionAhead, r.h.frame_count)
                 IN [h |-> _prefetch_frames(r.h, prefetch_start, prefetch_end),
                     frame |-> r.frame]

\* VideoHandler.get_current_position
get_current_position(h) == IF h.cap.held THEN cap_get(h) ELSE 0

\* seek that prefetches the window of get_frame_at_position (15 ahead, not 20)
seek_position_window(h, frame_number) ==
    IF ~h.cap.held THEN h
    ELSE LET h1 == cap_set(h, frame_number)
             prefetch_start == Max(0, frame_number - SeekBehind)
             prefetch_end == Min(frame_number + PositionAhead, h1.frame_count)
         IN _prefetch_frames(h1, prefetch_start, prefetch_end)

\* seek that prefetches from five frames back to the end of the video
seek_to_end_of_video(h, frame_number) ==
    IF ~h.cap.held THEN h
    ELSE LET h1 == cap_set(h, frame_number)
             prefetch_start == Max(0, frame_number - SeekBehind)
             prefetch_end == h1.frame_count
         IN _prefetch_frames(h1, prefetch_start, prefetch_end)

\* seek whose window starts five frames back also when that is below zero
seek_window_below_zero(h, frame_number) ==
    IF ~h.cap.held THEN h
    ELSE LET h1 == cap_set(h, frame_number)
             prefetch_start == frame_number - SeekBehind
             prefetch_end == Min(frame_number + SeekAhead, h1.frame_count)
         IN _prefetch_frames(h1, prefetch_start, prefetch_end)

\* VideoHandler.seek
seek(h, frame_number) ==
    IF ~h.cap.held THEN h
    ELSE LET h1 == cap_set(h, frame_number)
             prefetch_start == Max(0, frame_number - SeekBehind)
             prefetch_end == Min(frame_number + SeekAhead, h1.frame_count)
         IN _prefetch_frames(h1, prefetch_start, prefetch_end)

\* VideoHandler.clear_cache
clear_cache(h) == [Event(h, "clear", 0, 0) EXCEPT !.frame_cache = <<>>]

\* release that releases the capture but keeps the reference to it
release_keeps_handle(h) ==
    LET h1 == IF h.cap.held THEN Event(h, "release", 0, 0) ELSE h
    IN [Event(h1, "clear", 0, 0) EXCEPT !.frame_cache = <<>>]

\* VideoHandler.release
release(h) ==
    LET h1 == IF h.cap.held THEN [Event(h, "release", 0, 0) EXCEPT !.cap = NoCap] ELSE h
    IN [Event(h1, "clear", 0, 0) EXCEPT !.frame_cache = <<>>]

\* VideoTrimmerApp._load_settings, the cache part: the two fields are assigned
set_cache_settings(h, size, enabled) ==
    [h EXCEPT !.cache_size = size, !.cache_enabled = enabled]

\* --------------------------------------------------- replaying a call's log
\* One event of a call's log applied to the reference cache s.r; s.lru records
\* whether every eviction so far removed the entry the reference held as oldest.
Touch(s, e, capacity) ==
    IF e.c = "hit" THEN [s EXCEPT !.r = RefGet(@, e.a)]
    ELSE IF e.c = "put" THEN [s EXCEPT !.r = RefPut(@, e.a, capacity)]
    ELSE IF e.c = "clear" THEN [s EXCEPT !.r = <<>>]
    ELSE IF e.c = "evict" THEN [s EXCEPT !.lru = @ /\ Len(s.r) > 0 /\ Head(s.r) = e.a]
    ELSE s

\* the events log[lo..hi] applied in order (split in halves to keep the recursion shallow)
RECURSIVE Replay(_, _, _, _, _)
Replay(s, log, lo, hi, capacity) ==
    IF lo > hi THEN s
    ELSE IF lo = hi THEN Touch(s, log[lo], capacity)
    ELSE LET mid == (lo + hi) \div 2
             first == Replay(s, log, lo, mid, capacity)
         IN IF Evaluated(first) THEN Replay(first, log, mid + 1, hi, capacity) ELSE first

Replayed(r, log, capacity) == Replay([r |-> r, lru |-> TRUE], log, 1, Len(log), capacity)

Count(log, c) == Cardinality({i \in 1..Len(log) : log[i].c = c})
Only(log, c) == SelectSeq(log, LAMBDA e : e.c = c)

\* ------------------------------------------------------------ the exporter
\* VideoExporter.export_segments runs on a thread of its own (do_export in
\* VideoTrimmerApp.export_project); cancel_export is called from another
\* thread.  Each action below is one step of one thread between two accesses
\* to what the threads share: self.cancel_requested, self.process, the files
\* and the external processes.

\* paths are strings, modelled as sequences of characters
Source == <<"i">>                                   \* input_path
Out == <<"o", ".", "m">>                            \* output_path
SegmentTag == <<"_", "s", "e", "g", "m", "e", "n", "t">>
TempTag == <<"_", "t", "e", "m", "p">>
TsExt == <<".", "t", "s">>
ConcatTag == <<"_", "c", "o", "n", "c", "a", "t", ".", "t", "x", "t">>

Digit(d) == <<"0", "1", "2", "3", "4", "5", "6", "7", "8", "9">>[d + 1]

\* str(k) of a non-negative integer
RECURSIVE str(_)
str(k) == IF k < 10 THEN <<Digit(k)>> ELSE str(k \div 10) \o <<Digit(k % 10)>>

\* the zero padding of the format {idx:03d}
RECURSIVE zfill(_, _)
zfill(q, width) == IF Len(q) >= width THEN q ELSE zfill(<<"0">> \o q, width)

\* os.path.splitext for a path without directories: split at the last dot,
\* unless only dots come before it
splitext(p) ==
    LET dots == {i \in 1..Len(p) : p[i] = "."}
        last_dot == CHOOSE i \in dots : \A j \in dots : j <= i
    IN IF dots = {} \/ \A j \in 1..(last_dot - 1) : p[j] = "."
       THEN [base |-> p, ext |-> <<>>]
       ELSE [base |-> SubSeq(p, 1, last_dot - 1), ext |-> SubSeq(p, last_dot, Len(p))]

\* f"{base}_{counter}{ext}"
Suffixed(base, counter, ext) == base \o <<"_">> \o str(counter) \o ext

\* the while loop of get_unique_filename from a given counter on
RECURSIVE ProbeName(_, _, _, _)
ProbeName(fs, base, ext, counter) ==
    LET unique_file == Suffixed(base, counter, ext)
    IN IF unique_file \in fs THEN ProbeName(fs, base, ext, counter + 1) ELSE unique_file

\* get_unique_filename that tries the suffix _1 only
get_unique_filename_one_suffix(fs, file_path) ==
    LET s == splitext(file_path)
    IN IF file_path \in fs THEN Suffixed(s.base, 1, s.ext) ELSE file_path

\* VideoExporter.get_unique_filename, with fs the paths that exist
get_unique_filename(fs, file_path) ==
    LET s == splitext(file_path)
    IN IF file_path \in fs THEN ProbeName(fs, s.base, s.ext, 1) ELSE file_path

\* f"{base}_segment{idx:03d}{ext}" of _export_separate
segment_path(output_path, idx) ==
    LET s == splitext(output_path)
    IN s.base \o SegmentTag \o zfill(str(idx), 3) \o s.ext

\* f"{output_path}_temp{idx:03d}.ts" of _export_combined
temp_path(output_path, idx) == output_path \o TempTag \o zfill(str(idx), 3) \o TsExt

\* output_path + "_concat.txt"
concat_file(output_path) == output_path \o ConcatTag

\* the concat file written with the temporary files in reverse order
concat_lines_reversed(temp_files) ==
    [i \in 1..Len(temp_files) |-> temp_files[Len(temp_files) + 1 - i]]

\* the lines written to the concat file: the temporary files in list order
concat_lines(temp_files) == [i \in 1..Len(temp_files) |-> temp_files[i]]

\* _run_export_sync that reports no failure
export_failed_never(returncode, cancel) == FALSE

\* if self.process.returncode != 0 and not self.cancel_requested: raise
export_failed(returncode, cancel) == returncode # 0 /\ ~cancel

\* except Exception as e: if not self.cancel_requested: raise e
reraised(cancel) == ~cancel

\* the files the finally block of _export_combined leaves
cleaned(fs, temp_files, output_path) ==
    fs \ ({temp_files[i] : i \in 1..Len(temp_files)} \cup {concat_file(output_path)})

\* an encoder that reads the source through the capture of the VideoHandler,
\* rewinding it
encoder_input_shares_capture(c, input_path) == [c EXCEPT !.pos = 0]

\* ffmpeg -i input_path: the encoder opens the source by its path; the
\* capture c of the VideoHandler is not handed to it and stays as it is
encoder_input(c, input_path) == c

MaxSegments == 2       \* segments of an export run: 0..MaxSegments
MaxCancels == 1        \* calls of cancel_export

\* no segment dictionary
NoSegment == [in_frame |-> 0, out_frame |-> 0, duration |-> 0]

NoRun == [pc |-> "idle", combine |-> FALSE, n |-> 0, idx |-> 0, output_path |-> Out,
          path |-> <<>>, kind |-> "encode", exported_files |-> <<>>,
          temp_files |-> <<>>, lines |-> <<>>,
          exc |-> "none", files0 |-> {},
          entry |-> "export_segments", round |-> 1, procs0 |-> 0, cancelled0 |-> FALSE,
          segment |-> NoSegment, confirmed |-> <<>>]
NoCanceller == [pc |-> "idle", calls |-> 0, requested |-> FALSE, in_run |-> FALSE,
                returned |-> FALSE, round |-> 0]

\* export_segments has been called and has not returned or raised
InRun == run.pc \notin {"idle", "report", "done"}

\* VideoExporter.__init__, no export started, the file system as it is
ExporterInit ==
    /\ cancel_requested = FALSE
    /\ process = 0
    /\ procs = <<>>
    /\ run = NoRun
    /\ canceller = NoCanceller
    /\ status = <<>>
    /\ shown = <<>>

\* TimelineWidget.__init__
DefaultDuration == 100
NoTimeline == [duration |-> DefaultDuration, current_position |-> 0, in_point |-> 0,
               out_point |-> DefaultDuration]

\* the export thread holds no list
NoSegments == [same |-> FALSE, list |-> <<>>]

\* VideoTrimmerApp.__init__: no segments, an empty list widget, a new timeline,
\* nothing on screen
WindowInit ==
    /\ trim_segments = <<>>
    /\ segments_list = <<>>
    /\ segments = NoSegments
    /\ timeline = NoTimeline
    /\ video_frame = Pixels(NoFrame)

At(pc) == run.pc = pc
Goto(pc) == [run EXCEPT !.pc = pc]
Raise(e, pc) == [run EXCEPT !.exc = e, !.pc = pc]


\* ------------------------------------------------------------ the actions
\* the handler's fields at the start of a call
Handler ==
    [cap |-> cap, frame_count |-> frame_count, current_video |-> current_video,
     frame_cache |-> frame_cache, cache_size |-> cache_size,
     cache_enabled |-> cache_enabled,
     held |-> {}, log |-> <<>>, peak |-> Len(frame_cache)]

\* the twin's fields: the same handler with the cache disabled and empty
Twin ==
    [cap |-> twin.cap, frame_count |-> twin.frame_count,
     current_video |-> twin.current_video,
     frame_cache |-> <<>>, cache_size |-> cache_size, cache_enabled |-> FALSE,
     held |-> {}, log |-> <<>>, peak |-> 0]

\* Buffer identities are renamed when a call returns: the i-th cache entry's
\* buffer becomes i, a returned frame that shares a cache entry's buffer takes
\* that entry's number, and any other returned frame the next number.
FirstWith(c, b) == CHOOSE i \in 1..Len(c) : c[i].frame.buf = b /\ \A j \in 1..(i - 1) : c[j].frame.buf # b
Renamed(c) == [i \in 1..Len(c) |-> [c[i] EXCEPT !.frame.buf = FirstWith(c, c[i].frame.buf)]]
RenamedFrame(c, f) ==
    IF f = NoFrame THEN NoFrame
    ELSE IF f.buf \in Bufs(c) THEN [f EXCEPT !.buf = FirstWith(c, f.buf)]
    ELSE [f EXCEPT !.buf = Len(c) + 1]

\* no call is being observed
Idle == [op |-> "idle", arg |-> 0, pos0 |-> 0, len0 |-> 0, keys0 |-> <<>>,
         vid0 |-> "none", held0 |-> FALSE, hit0 |-> FALSE, log |-> <<>>, peak |-> 0, none |-> TRUE,
         val |-> Pixels(NoFrame), ok |-> TRUE, lru |-> TRUE, failed0 |-> FALSE,
         busy0 |-> 0]

\* a call runs to its return
Returns(op, arg, h, frame, ok, t, tframe, played) ==
    /\ cap' = h.cap
    /\ frame_count' = h.frame_count
    /\ current_video' = h.current_video
    /\ frame_cache' = Renamed(h.frame_cache)
    /\ cache_size' = h.cache_size
    /\ cache_enabled' = h.cache_enabled
    /\ ret' = RenamedFrame(h.frame_cache, frame)
    /\ ref' = played.r
    /\ last' = [op |-> op, arg |-> arg,
                pos0 |-> get_current_position(Handler),
                len0 |-> Len(frame_cache),
                keys0 |-> Keys(frame_cache),
                vid0 |-> cap.vid,
                held0 |-> cap.held,
                hit0 |-> cache_enabled /\ arg \in KeySet(frame_cache),
                log |-> h.log, peak |-> h.peak,
                none |-> frame = NoFrame, val |-> Pixels(frame), ok |-> ok,
                lru |-> played.lru,
                failed0 |-> soft_failed,
                busy0 |-> process]
    /\ UNCHANGED soft_failed
    /\ UNCHANGED exporter_vars
    /\ UNCHANGED window_vars
    /\ twin' = [cap |-> t.cap, frame_count |-> t.frame_count,
                current_video |-> t.current_video]
    /\ twin_ret' = Pixels(tframe)

\* the frame numbers callers ask for: every index of a short video and just
\* past its end; of a long video the probes, its last frames and just past its
\* end
Indices ==
    {n \in 0..(frame_count + Beyond) :
        frame_count <= ShortVideo \/ n \in Probes \/ n >= frame_count - 1}

\* a frame number so far past the end that no window around it reaches a frame
FarIndex == frame_count + SeekBehind

LoadVideo(v) ==
    /\ last = Idle
    /\ \E tries \in Trials(v) :
       \E r \in {load_video(Handler, v, tries)}, t \in {load_video(Twin, v, tries)} :
       \E played \in {Replayed(ref, r.h.log, cache_size)} :
          Returns("load_video", 0, r.h, NoFrame, r.ok, t.h, NoFrame, played)

GetCurrentFrame ==
    /\ last = Idle
    /\ \E r \in {get_current_frame(Handler)}, t \in {get_current_frame(Twin)} :
       \E played \in {Replayed(ref, r.h.log, cache_size)} :
          Returns("get_current_frame", get_current_position(Handler), r.h, r.frame, TRUE,
                  t.h, t.frame, played)

GetFrameAtPosition(n) ==
    /\ last = Idle
    /\ \E r \in {get_frame_at_position(Handler, n)}, t \in {get_frame_at_position(Twin, n)} :
       \E played \in {Replayed(ref, r.h.log, cache_size)} :
          Returns("get_frame_at_position", n, r.h, r.frame, TRUE, t.h, t.frame, played)

Seek(n) ==
    /\ last = Idle
    /\ \E h \in {seek(Handler, n)}, t \in {seek(Twin, n)} :
          \E played \in {Replayed(ref, h.log, cache_size)} :
             Returns("seek", n, h, NoFrame, TRUE, t, NoFrame, played)

ClearCache ==
    /\ last = Idle
    /\ \E h \in {clear_cache(Handler)}, t \in {Twin} :
          \E played \in {Replayed(ref, h.log, cache_size)} :
             Returns("clear_cache", 0, h, NoFrame, TRUE, t, NoFrame, played)

Release ==
    /\ last = Idle
    /\ \E h \in {release(Handler)}, t \in {release(Twin)} :
          \E played \in {Replayed(ref, h.log, cache_size)} :
             Returns("release", 0, h, NoFrame, TRUE, t, NoFrame, played)

\* the caller writes into the frame it was handed (pixel conversion, drawing)
Mutate ==
    /\ last = Idle
    /\ ret # NoFrame
    /\ ~ret.dirty
    /\ ret' = [ret EXCEPT !.dirty = TRUE]
    /\ frame_cache' = [i \in 1..Len(frame_cache) |->
                         IF frame_cache[i].frame.buf = ret.buf
                         THEN [frame_cache[i] EXCEPT !.frame.dirty = TRUE]
                         ELSE frame_cache[i]]
    /\ last' = [Idle EXCEPT !.op = "mutate"]
    /\ UNCHANGED <<cap, frame_count, current_video, cache_size, cache_enabled,
                   ref, twin, twin_ret, soft_failed>>
    /\ UNCHANGED exporter_vars
    /\ UNCHANGED window_vars

\* the observation of a returned call is dropped; the handler is untouched
Forget ==
    /\ last # Idle
    /\ last' = Idle
    /\ UNCHANGED <<cap, frame_count, current_video, frame_cache, cache_size,
                   cache_enabled, ret, ref, twin, twin_ret, soft_failed>>
    /\ UNCHANGED exporter_vars
    /\ UNCHANGED window_vars

\* the cache settings are rewritten while the handler is in use
SetCacheSettings(size, enabled) ==
    /\ last = Idle
    /\ <<size, enabled>> # <<cache_size, cache_enabled>>
    /\ \E h \in {set_cache_settings(Handler, size, enabled)}, t \in {Twin} :
          \E played \in {Replayed(ref, h.log, cache_size)} :
          Returns("set_cache_settings", size, h, NoFrame, TRUE, t, NoFrame, played)

\* VideoHandler.__init__ followed by VideoTrimmerApp._load_settings
Init ==
    /\ cap = NoCap
    /\ frame_count = 0
    /\ current_video = "none"
    /\ frame_cache = <<>>
    /\ cache_size \in 1..MaxCap
    /\ cache_enabled \in BOOLEAN
    /\ ret = NoFrame
    /\ ref = <<>>
    /\ last = Idle
    /\ twin = [cap |-> NoCap, frame_count |-> 0, current_video |-> "none"]
    /\ twin_ret = Pixels(NoFrame)
    /\ soft_failed = FALSE
    /\ ExporterInit
    /\ WindowInit
    /\ files = {}

Next ==
    \/ \E v \in Videos : LoadVideo(v)
    \/ GetCurrentFrame
    \/ \E n \in Indices : GetFrameAtPosition(n)
    \/ \E n \in Indices : Seek(n)
    \/ ClearCache
    \/ Release
    \/ Mutate
    \/ Forget

Spec == Init /\ [][Next]_vars

\* The handler in use while its capacity is lowered: the settings written are
\* the smaller capacities, with the enabled flag as it stands.
NextCfg ==
    \/ Next
    \/ \E size \in 1..(cache_size - 1) : SetCacheSettings(size, cache_enabled)

SpecCfg == Init /\ [][NextCfg]_vars

\* The handler in use while its cache is switched off: the settings written
\* keep the capacity and clear the enabled flag.
NextOff ==
    \/ Next
    \/ cache_enabled /\ SetCacheSettings(cache_size, FALSE)

SpecOff == Init /\ [][NextOff]_vars

\* the observation of a returned call is dropped, but for one mark: whether it
\* was a frame access on a loaded video that found no frame at the decoder
Remember ==
    /\ last # Idle
    /\ last' = Idle
    /\ soft_failed' = (/\ last.op \in {"get_current_frame", "get_frame_at_position"}
                       /\ last.held0
                       /\ Openable(last.vid0)
                       /\ last.none)
    /\ UNCHANGED <<cap, frame_count, current_video, frame_cache, cache_size,
                   cache_enabled, ret, ref, twin, twin_ret>>
    /\ UNCHANGED exporter_vars
    /\ UNCHANGED window_vars

\* The handler asked for frames at and past the end of the video, also far
\* past it, with each failed frame access remembered into the next call.
NextEdge ==
    \/ \E v \in Videos : LoadVideo(v)
    \/ GetCurrentFrame
    \/ \E n \in Indices \cup {FarIndex} : GetFrameAtPosition(n)
    \/ \E n \in Indices : Seek(n)
    \/ ClearCache
    \/ Release
    \/ Remember

SpecEdge == Init /\ [][NextEdge]_vars

\* frame numbers below zero: one whose window still reaches frames of the
\* video, one whose window ends below zero
Below == 1
Negatives == {0 - Below, 0 - (SeekAhead + Below)}

\* The handler asked for frames below zero as well.
NextNegative ==
    \/ \E v \in Videos : LoadVideo(v)
    \/ GetCurrentFrame
    \/ \E n \in Indices \cup Negatives : GetFrameAtPosition(n)
    \/ \E n \in Indices \cup Negatives : Seek(n)
    \/ ClearCache
    \/ Release
    \/ Forget

SpecNegative == Init /\ [][NextNegative]_vars

\* export_project: do_export is started on a new thread for the segments of
\* the session (threading.Thread(target=do_export).start())
ExportProject(combine, n) ==
    /\ At("idle")
    /\ run' = [NoRun EXCEPT !.pc = "entry", !.combine = combine, !.n = n, !.files0 = files]
    /\ UNCHANGED <<cancel_requested, process, files, procs, canceller, status, shown>>
    /\ UNCHANGED handler_vars
    /\ UNCHANGED window_vars

\* export_segments, the checks of its arguments
ExportSegments ==
    /\ At("entry")
    /\ run' = IF run.n = 0 THEN Raise("ValueError", "report")
              ELSE IF Source \notin files THEN Raise("FileNotFoundError", "report")
              ELSE Goto("reset")
    /\ UNCHANGED <<cancel_requested, process, files, procs, canceller, status, shown>>
    /\ UNCHANGED handler_vars
    /\ UNCHANGED window_vars

\* export_segments: self.cancel_requested = False, then the branch on combine
ResetCancel ==
    /\ At("reset")
    /\ cancel_requested' = FALSE
    /\ run' = [run EXCEPT !.pc = IF run.combine THEN "name" ELSE "loop", !.idx = 1]
    /\ UNCHANGED <<process, files, procs, canceller, status, shown>>
    /\ UNCHANGED handler_vars
    /\ UNCHANGED window_vars

\* _export_combined: output_path = self.get_unique_filename(output_path)
CombinedName ==
    /\ At("name")
    /\ run' = [run EXCEPT !.output_path = get_unique_filename(files, run.output_path),
                          !.pc = "loop"]
    /\ UNCHANGED <<cancel_requested, process, files, procs, canceller, status, shown>>
    /\ UNCHANGED handler_vars
    /\ UNCHANGED window_vars

\* the head of the for loop of _export_separate / _export_combined: the end
\* of the list, the test of the cancel flag, the path of the segment
LoopHead ==
    /\ At("loop")
    /\ run' = IF run.idx > run.n
              THEN Goto(IF run.combine THEN "after_loop" ELSE "report")
              ELSE IF cancel_requested
              THEN Goto(IF run.combine THEN "cleanup" ELSE "report")
              ELSE [run EXCEPT
                      !.pc = "status",
                      !.kind = "encode",
                      !.path = IF run.combine
                               THEN temp_path(run.output_path, run.idx)
                               ELSE get_unique_filename(files,
                                        segment_path(run.output_path, run.idx))]
    /\ UNCHANGED <<cancel_requested, process, files, procs, canceller, status, shown>>
    /\ UNCHANGED handler_vars
    /\ UNCHANGED window_vars

\* _export_single_segment: the command is built and the progress reported
ReportProgress ==
    /\ At("status")
    /\ status' = Append(status, [msg |-> "Exporting segment", current |-> run.idx,
                                 total |-> run.n])
    /\ run' = Goto("popen")
    /\ UNCHANGED <<cancel_requested, process, files, procs, canceller, shown>>
    /\ UNCHANGED handler_vars
    /\ UNCHANGED window_vars

\* _run_export_sync: self.process = subprocess.Popen(cmd, ...); the encoder
\* starts, or cannot be started and Popen raises
Popen(starts) ==
    /\ At("popen")
    /\ procs' = Append(procs, [kind |-> run.kind, idx |-> run.idx, target |-> run.path,
                               st |-> IF starts THEN "running" ELSE "not_started",
                               code |-> 0, terminated |-> FALSE, wrote |-> FALSE,
                               after_cancel |-> canceller.returned,
                               segment |-> run.segment])
    /\ process' = IF starts THEN Len(procs) + 1 ELSE process
    /\ run' = IF starts THEN Goto("communicate") ELSE Raise("OSError", "except")
    /\ cap' = IF starts THEN encoder_input(cap, Source) ELSE cap
    /\ UNCHANGED <<cancel_requested, files, canceller, status, shown>>
    /\ UNCHANGED <<frame_count, current_video, frame_cache, cache_size, cache_enabled,
                   ret, last, ref, twin, twin_ret, soft_failed>>
    /\ UNCHANGED window_vars

\* the external process ends: with code 0 and its output written, or with
\* another code and its output written in part or not at all; a process that
\* was sent terminate() does not end with code 0
EncoderExits(i, code, wrote) ==
    /\ procs[i].st = "running"
    /\ code = 0 => wrote /\ ~procs[i].terminated
    /\ procs' = [procs EXCEPT ![i].st = "exited", ![i].code = code, ![i].wrote = wrote]
    /\ files' = IF wrote THEN files \cup {procs[i].target} ELSE files
    /\ UNCHANGED <<cancel_requested, process, run, canceller, status, shown>>
    /\ UNCHANGED handler_vars
    /\ UNCHANGED window_vars

\* _run_export_sync: stdout, stderr = self.process.communicate() returns
Communicate ==
    /\ At("communicate")
    /\ procs[process].st = "exited"
    /\ run' = Goto("check")
    /\ UNCHANGED <<cancel_requested, process, files, procs, canceller, status, shown>>
    /\ UNCHANGED handler_vars
    /\ UNCHANGED window_vars

\* _run_export_sync: the test of the return code and of the cancel flag
CheckReturncode ==
    /\ At("check")
    /\ run' = IF export_failed(procs[process].code, cancel_requested)
              THEN Raise("Export failed", "except")
              ELSE Goto("finally")
    /\ UNCHANGED <<cancel_requested, process, files, procs, canceller, status, shown>>
    /\ UNCHANGED handler_vars
    /\ UNCHANGED window_vars

\* _run_export_sync: the except clause re-raises unless cancel was requested
Except ==
    /\ At("except")
    /\ run' = IF reraised(cancel_requested) THEN Goto("finally") ELSE Raise("none", "finally")
    /\ UNCHANGED <<cancel_requested, process, files, procs, canceller, status, shown>>
    /\ UNCHANGED handler_vars
    /\ UNCHANGED window_vars

\* _run_export_sync: finally self.process = None; then the exception leaves
\* the loop, or the call returns and the path is appended to the list
Finally ==
    /\ At("finally")
    /\ process' = 0
    /\ run' = IF run.exc # "none"
              THEN Goto(IF run.combine THEN "cleanup" ELSE "report")
              ELSE IF run.kind = "concat" THEN Goto("cleanup")
              ELSE IF run.combine
              THEN [run EXCEPT !.temp_files = Append(@, run.path), !.idx = @ + 1,
                               !.pc = "loop"]
              ELSE [run EXCEPT !.exported_files = Append(@, run.path), !.idx = @ + 1,
                               !.pc = "loop"]
    /\ UNCHANGED <<cancel_requested, files, procs, canceller, status, shown>>
    /\ UNCHANGED handler_vars
    /\ UNCHANGED window_vars

\* _export_combined after the loop: the test of the cancel flag, then the
\* concat file is written
WriteConcat ==
    /\ At("after_loop")
    /\ IF cancel_requested
       THEN run' = Goto("cleanup") /\ files' = files
       ELSE /\ run' = [run EXCEPT !.lines = concat_lines(run.temp_files), !.pc = "combine"]
            /\ files' = files \cup {concat_file(run.output_path)}
    /\ UNCHANGED <<cancel_requested, process, procs, canceller, status, shown>>
    /\ UNCHANGED handler_vars
    /\ UNCHANGED window_vars

\* _combine_segments: the status and the concat command
CombineSegments ==
    /\ At("combine")
    /\ status' = Append(status, [msg |-> "Combining segments", current |-> 0,
                                 total |-> run.n])
    /\ run' = [run EXCEPT !.kind = "concat", !.path = run.output_path, !.pc = "popen"]
    /\ UNCHANGED <<cancel_requested, process, files, procs, canceller, shown>>
    /\ UNCHANGED handler_vars
    /\ UNCHANGED window_vars

\* _export_combined: the finally block
CleanUp ==
    /\ At("cleanup")
    /\ files' = cleaned(files, run.temp_files, run.output_path)
    /\ run' = Goto("report")
    /\ UNCHANGED <<cancel_requested, process, procs, canceller, status, shown>>
    /\ UNCHANGED handler_vars
    /\ UNCHANGED window_vars

\* do_export after export_segments: the error dialog for an exception, the
\* success dialog unless the cancel flag is set
Report ==
    /\ At("report")
    /\ run.entry = "export_segments"
    /\ shown' = IF run.exc # "none" THEN Append(shown, "Export Error")
                ELSE IF ~cancel_requested THEN Append(shown, "Export Complete")
                ELSE shown
    /\ run' = Goto("done")
    /\ UNCHANGED <<cancel_requested, process, files, procs, canceller, status>>
    /\ UNCHANGED handler_vars
    /\ UNCHANGED window_vars

\* cancel_export: self.cancel_requested = True
CancelExport ==
    /\ canceller.pc = "idle"
    /\ canceller.calls < MaxCancels
    /\ cancel_requested' = TRUE
    /\ canceller' = [canceller EXCEPT !.pc = "test", !.calls = @ + 1, !.requested = TRUE,
                                      !.in_run = @ \/ InRun, !.round = run.round]
    /\ UNCHANGED <<process, files, procs, run, status, shown>>
    /\ UNCHANGED handler_vars
    /\ UNCHANGED window_vars

\* cancel_export: if self.process
CancelTest ==
    /\ canceller.pc = "test"
    /\ canceller' = [canceller EXCEPT !.pc = IF process # 0 THEN "terminate" ELSE "print"]
    /\ UNCHANGED <<cancel_requested, process, files, procs, run, status, shown>>
    /\ UNCHANGED handler_vars
    /\ UNCHANGED window_vars

\* cancel_export: self.process.terminate(), self.process read a second time;
\* None by now has no terminate and the call raises
CancelTerminate ==
    /\ canceller.pc = "terminate"
    /\ IF process = 0
       THEN canceller' = [canceller EXCEPT !.pc = "raised"] /\ procs' = procs
       ELSE /\ canceller' = [canceller EXCEPT !.pc = "print"]
            /\ procs' = IF procs[process].st = "running"
                        THEN [procs EXCEPT ![process].terminated = TRUE]
                        ELSE procs
    /\ UNCHANGED <<cancel_requested, process, files, run, status, shown>>
    /\ UNCHANGED handler_vars
    /\ UNCHANGED window_vars

\* cancel_export returns
CancelReturn ==
    /\ canceller.pc = "print"
    /\ canceller' = [canceller EXCEPT !.pc = "idle", !.returned = @ \/ InRun]
    /\ UNCHANGED <<cancel_requested, process, files, procs, run, status, shown>>
    /\ UNCHANGED handler_vars
    /\ UNCHANGED window_vars

\* the files found before an export: none, or earlier exports under the names
\* this one would take
PreExisting ==
    {{},
     {segment_path(Out, 1)},
     {segment_path(Out, 1), Suffixed(splitext(segment_path(Out, 1)).base, 1, <<".", "m">>)},
     {Out},
     {Out, <<"o", "_", "1", ".", "m">>}}

\* an exporter and a file system with the source video, or with nothing
InitExport ==
    /\ cap = NoCap
    /\ frame_count = 0
    /\ current_video = "none"
    /\ frame_cache = <<>>
    /\ cache_size = MaxCap
    /\ cache_enabled = TRUE
    /\ ret = NoFrame
    /\ ref = <<>>
    /\ last = Idle
    /\ twin = [cap |-> NoCap, frame_count |-> 0, current_video |-> "none"]
    /\ twin_ret = Pixels(NoFrame)
    /\ soft_failed = FALSE
    /\ ExporterInit
    /\ WindowInit
    /\ files \in {{}} \cup {F \cup {Source} : F \in PreExisting}

NextExport ==
    \/ \E combine \in BOOLEAN, n \in 0..MaxSegments : ExportProject(combine, n)
    \/ ExportSegments
    \/ ResetCancel
    \/ CombinedName
    \/ LoopHead
    \/ ReportProgress
    \/ \E starts \in BOOLEAN : Popen(starts)
    \/ \E i \in 1..Len(procs), code \in {0, 1}, wrote \in BOOLEAN : EncoderExits(i, code, wrote)
    \/ Communicate
    \/ CheckReturncode
    \/ Except
    \/ Finally
    \/ WriteConcat
    \/ CombineSegments
    \/ CleanUp
    \/ Report
    \/ CancelExport
    \/ CancelTest
    \/ CancelTerminate
    \/ CancelReturn

SpecExport == InitExport /\ [][NextExport]_vars

\* export_project once more after an export has ended: do_export is started
\* on a new thread for the segments of the session
ExportAgain(n) ==
    /\ At("done")
    /\ run.round = 1
    /\ run' = [NoRun EXCEPT !.pc = "entry", !.n = n, !.round = 2, !.files0 = files,
                            !.procs0 = Len(procs),
                            !.cancelled0 = canceller.calls > 0
                                           /\ canceller.pc \in {"idle", "raised"}]
    /\ UNCHANGED <<cancel_requested, process, files, procs, canceller, status, shown>>
    /\ UNCHANGED handler_vars
    /\ UNCHANGED window_vars

\* export_video after an export has ended: one segment handed to
\* _export_separate
ExportVideo ==
    /\ At("done")
    /\ run.round = 1
    /\ run' = [NoRun EXCEPT !.pc = "loop", !.n = 1, !.idx = 1, !.entry = "export_video",
                            !.round = 2, !.files0 = files, !.procs0 = Len(procs),
                            !.cancelled0 = canceller.calls > 0
                                           /\ canceller.pc \in {"idle", "raised"}]
    /\ UNCHANGED <<cancel_requested, process, files, procs, canceller, status, shown>>
    /\ UNCHANGED handler_vars
    /\ UNCHANGED window_vars

\* export_video returns or raises to its caller
ExportVideoReturns ==
    /\ At("report")
    /\ run.entry = "export_video"
    /\ run' = Goto("done")
    /\ UNCHANGED <<cancel_requested, process, files, procs, canceller, status, shown>>
    /\ UNCHANGED handler_vars
    /\ UNCHANGED window_vars

\* One export of one segment into separate files, which may be cancelled, and
\* after it has ended a second export through either entry point.
InitAgain == InitExport /\ files = {Source}

NextAgain ==
    \/ ExportProject(FALSE, 1)
    \/ \E n \in 1..MaxSegments : ExportAgain(n)
    \/ ExportVideo
    \/ ExportVideoReturns
    \/ ExportSegments
    \/ ResetCancel
    \/ LoopHead
    \/ ReportProgress
    \/ \E starts \in BOOLEAN : Popen(starts)
    \/ \E i \in 1..Len(procs), code \in {0, 1}, wrote \in BOOLEAN : EncoderExits(i, code, wrote)
    \/ Communicate
    \/ CheckReturncode
    \/ Except
    \/ Finally
    \/ Report
    \/ CancelExport
    \/ CancelTest
    \/ CancelTerminate
    \/ CancelReturn

SpecAgain == InitAgain /\ [][NextAgain]_vars

\* Playback while an export runs: the UI thread loads video "B" and fetches
\* frames, export_project starts an export of the loaded video, and the export
\* thread and its encoders run in between.
PlaybackIndices == {0, BadFrameB + 1}

InitPlayback == InitExport /\ files = {Source}

NextPlayback ==
    \/ LoadVideo("B")
    \/ GetCurrentFrame
    \/ \E n \in PlaybackIndices : GetFrameAtPosition(n)
    \/ Forget
    \/ \E combine \in BOOLEAN, n \in 1..MaxSegments :
          current_video # "none" /\ ExportProject(combine, n)
    \/ ExportSegments
    \/ ResetCancel
    \/ CombinedName
    \/ LoopHead
    \/ ReportProgress
    \/ \E starts \in BOOLEAN : Popen(starts)
    \/ \E i \in 1..Len(procs), code \in {0, 1}, wrote \in BOOLEAN : EncoderExits(i, code, wrote)
    \/ Communicate
    \/ CheckReturncode
    \/ Except
    \/ Finally
    \/ WriteConcat
    \/ CombineSegments
    \/ CleanUp
    \/ Report

SpecPlayback == InitPlayback /\ [][NextPlayback]_vars

\* ------------------------------------------------------------ the main window
\* TimelineWidget.set_duration
set_duration(t, duration) == [t EXCEPT !.duration = Max(1, duration)]

\* TimelineWidget.set_position
set_position(t, position) ==
    [t EXCEPT !.current_position = Max(0, Min(position, t.duration))]

\* TimelineWidget.set_in_out_points
set_in_out_points(t, in_point, out_point) ==
    LET new_in == Max(0, Min(in_point, t.duration))
    IN [t EXCEPT !.in_point = new_in,
                 !.out_point = Max(new_in, Min(out_point, t.duration))]

\* TimelineWidget._screen_to_frame, frame the number the mouse position and the
\* visible range work out to before it is clamped
_screen_to_frame(t, frame) == Max(0, Min(frame, t.duration))

\* The operators below work on a record w of the window's parts: the handler
\* record h, the timeline and the frame on screen.
Window ==
    [h |-> [cap |-> cap, frame_count |-> frame_count, current_video |-> current_video,
            frame_cache |-> frame_cache, cache_size |-> cache_size,
            cache_enabled |-> cache_enabled,
            held |-> {}, log |-> <<>>, peak |-> Len(frame_cache)],
     timeline |-> timeline, video_frame |-> video_frame]

\* VideoTrimmerApp.show_current_frame: a frame that is None leaves the screen
\* as it is
show_current_frame(w) ==
    LET r == get_current_frame(w.h)
    IN [w EXCEPT !.h = r.h,
                 !.video_frame = IF r.frame # NoFrame THEN Pixels(r.frame) ELSE @]

\* VideoTrimmerApp.seek_video
seek_video(w, position) == show_current_frame([w EXCEPT !.h = seek(@, position)])

\* VideoTrimmerApp.load_video
window_load_video(w, video_path, tries) ==
    LET r == load_video(w.h, video_path, tries)
    IN IF ~r.ok THEN [w EXCEPT !.h = r.h]
       ELSE show_current_frame(
                [w EXCEPT !.h = r.h,
                          !.timeline = set_in_out_points(set_duration(@, r.h.frame_count),
                                                         0, r.h.frame_count)])

\* VideoTrimmerApp.next_frame
next_frame(w) ==
    IF ~w.h.cap.held THEN w
    ELSE LET current == get_current_position(w.h)
             new_pos == Min(current + 1, w.h.frame_count - 1)
             w1 == seek_video(w, new_pos)
         IN [w1 EXCEPT !.timeline = set_position(@, new_pos)]

\* VideoTrimmerApp.previous_frame
previous_frame(w) ==
    IF ~w.h.cap.held THEN w
    ELSE LET current == get_current_position(w.h)
             new_pos == Max(current - 1, 0)
             w1 == seek_video(w, new_pos)
         IN [w1 EXCEPT !.timeline = set_position(@, new_pos)]

\* VideoTrimmerApp.stop_video
stop_video(w) ==
    IF ~w.h.cap.held THEN w
    ELSE show_current_frame([w EXCEPT !.h = seek(@, 0),
                                      !.timeline = set_position(@, 0)])

\* VideoTrimmerApp.set_in_point
set_in_point(w) ==
    IF ~w.h.cap.held THEN w
    ELSE [w EXCEPT !.timeline = set_in_out_points(@, get_current_position(w.h),
                                                  w.timeline.out_point)]

\* VideoTrimmerApp.set_out_point
set_out_point(w) ==
    IF ~w.h.cap.held THEN w
    ELSE [w EXCEPT !.timeline = set_in_out_points(@, w.timeline.in_point,
                                                  get_current_position(w.h))]

\* VideoTrimmerApp.clear_in_out_points
clear_in_out_points(w) ==
    [w EXCEPT !.timeline = set_in_out_points(@, 0, w.h.frame_count)]

\* TimelineWidget.update_position_from_mouse; positionChanged is connected to
\* seek_video
update_position_from_mouse(w, frame) ==
    LET new_pos == _screen_to_frame(w.timeline, frame)
    IN IF new_pos # w.timeline.current_position
       THEN seek_video([w EXCEPT !.timeline.current_position = new_pos], new_pos)
       ELSE w

\* TimelineWidget.update_in_point_from_mouse
update_in_point_from_mouse(w, frame) ==
    LET new_in == Max(0, Min(_screen_to_frame(w.timeline, frame), w.timeline.out_point))
    IN IF new_in # w.timeline.in_point THEN [w EXCEPT !.timeline.in_point = new_in] ELSE w

\* TimelineWidget.update_out_point_from_mouse
update_out_point_from_mouse(w, frame) ==
    LET new_out == Max(w.timeline.in_point,
                       Min(_screen_to_frame(w.timeline, frame), w.timeline.duration))
    IN IF new_out # w.timeline.out_point THEN [w EXCEPT !.timeline.out_point = new_out] ELSE w

\* a handler of the window runs to its return; last keeps which handler it
\* was, its argument, and the decoder position and the frame on screen when it
\* was called
Handled(op, arg, w) ==
    /\ cap' = w.h.cap
    /\ frame_count' = w.h.frame_count
    /\ current_video' = w.h.current_video
    /\ frame_cache' = Renamed(w.h.frame_cache)
    /\ cache_size' = w.h.cache_size
    /\ cache_enabled' = w.h.cache_enabled
    /\ ret' = NoFrame
    /\ timeline' = w.timeline
    /\ video_frame' = w.video_frame
    /\ last' = [Idle EXCEPT !.op = op, !.arg = arg,
                            !.pos0 = get_current_position(Window.h),
                            !.vid0 = cap.vid, !.held0 = cap.held,
                            !.val = video_frame]
    /\ UNCHANGED <<ref, twin, twin_ret, soft_failed>>
    /\ UNCHANGED <<trim_segments, segments_list, segments>>
    /\ UNCHANGED exporter_vars

\* where the mouse is put on the timeline: left of it, inside a short and a
\* long video, right of them
MouseFrames == {0 - Below, BadFrameB - 1, FrameCountB + Beyond, FrameCountA + Beyond}

WindowLoadVideo(v) ==
    \E tries \in Trials(v) :
       \E w \in {window_load_video(Window, v, tries)} : Handled("load_video", 0, w)

NextFrame == \E w \in {next_frame(Window)} : Handled("next_frame", 0, w)

PreviousFrame == \E w \in {previous_frame(Window)} : Handled("previous_frame", 0, w)

StopVideo == \E w \in {stop_video(Window)} : Handled("stop_video", 0, w)

SetInPoint == \E w \in {set_in_point(Window)} : Handled("set_in_point", 0, w)

SetOutPoint == \E w \in {set_out_point(Window)} : Handled("set_out_point", 0, w)

ClearInOutPoints ==
    \E w \in {clear_in_out_points(Window)} : Handled("clear_in_out_points", 0, w)

UpdatePositionFromMouse(frame) ==
    \E w \in {update_position_from_mouse(Window, frame)} :
       Handled("update_position_from_mouse", frame, w)

UpdateInPointFromMouse(frame) ==
    \E w \in {update_in_point_from_mouse(Window, frame)} :
       Handled("update_in_point_from_mouse", frame, w)

UpdateOutPointFromMouse(frame) ==
    \E w \in {update_out_point_from_mouse(Window, frame)} :
       Handled("update_out_point_from_mouse", frame, w)

\* the window with nothing loaded, the frame cache switched off in the settings
InitTimeline ==
    /\ Init
    /\ cache_size = MaxCap
    /\ ~cache_enabled

\* The user loads videos, stops, and sets and drags the position and the in
\* and out markers of the timeline.
NextTimeline ==
    \/ \E v \in Videos : WindowLoadVideo(v)
    \/ StopVideo
    \/ SetInPoint
    \/ SetOutPoint
    \/ ClearInOutPoints
    \/ \E frame \in MouseFrames : UpdatePositionFromMouse(frame)
    \/ \E frame \in MouseFrames : UpdateInPointFromMouse(frame)
    \/ \E frame \in MouseFrames : UpdateOutPointFromMouse(frame)

SpecTimeline == InitTimeline /\ [][NextTimeline]_vars

\* the window with nothing loaded, the frame cache in use
InitStep ==
    /\ Init
    /\ cache_size = MaxCap
    /\ cache_enabled

\* The user loads videos, steps frame by frame, stops, and drags the position
\* on the timeline.
NextStep ==
    \/ \E v \in Videos : WindowLoadVideo(v)
    \/ NextFrame
    \/ PreviousFrame
    \/ StopVideo
    \/ \E frame \in MouseFrames : UpdatePositionFromMouse(frame)

SpecStep == InitStep /\ [][NextStep]_vars


\* ------------------------------------------------------------ the segments
\* the time one frame of the loaded video lasts, in seconds (1 / fps)
SecondsPerFrame == 3
MaxList == 2           \* segments in the list: 0..MaxList

\* the dictionary add_segment builds; duration in seconds
Segment(in_point, out_point) ==
    [in_frame |-> in_point, out_frame |-> out_point,
     duration |-> (out_point - in_point) * SecondsPerFrame]

\* mins, secs = divmod(int(duration), 60), each formatted with 02d
Minutes(segment) == zfill(str(segment.duration \div 60), 2)
Seconds(segment) == zfill(str(segment.duration % 60), 2)

\* the format {n:,}
RECURSIVE grouped(_)
grouped(n) ==
    IF n < 1000 THEN str(n)
    ELSE grouped(n \div 1000) \o <<",">> \o zfill(str(n % 1000), 3)

\* Texts are sequences of characters; "film", "arrow" and "watch" stand for
\* the three pictographs of the formats.
SegmentWord == <<"S", "e", "g", "m", "e", "n", "t">>

\* add_segment: f"Segment {n}: {in_point} -> {out_point} ({mins:02d}:{secs:02d})"
added_text(n, segment) ==
    SegmentWord \o <<" ">> \o str(n) \o <<":", " ">> \o str(segment.in_frame)
        \o <<" ", "arrow", " ">> \o str(segment.out_frame)
        \o <<" ", "(">> \o Minutes(segment) \o <<":">> \o Seconds(segment) \o <<")">>

\* _refresh_segment_list:
\* f"(film) Segment {idx}  |  {in_frame:,} -> {out_frame:,}  |  (watch) {mins:02d}:{secs:02d}"
refreshed_text(idx, segment) ==
    <<"film", " ">> \o SegmentWord \o <<" ">> \o str(idx)
        \o <<" ", " ", "|", " ", " ">> \o grouped(segment.in_frame)
        \o <<" ", "arrow", " ">> \o grouped(segment.out_frame)
        \o <<" ", " ", "|", " ", " ", "watch", " ">>
        \o Minutes(segment) \o <<":">> \o Seconds(segment)

\* an item of the list widget: its text, and the segment it was made for
Item(text, segment) == [text |-> text, segment |-> segment]

\* item_text.split(':')[0]
before_colon(text) ==
    LET colons == {i \in 1..Len(text) : text[i] = ":"}
    IN IF colons = {} THEN text
       ELSE SubSeq(text, 1, (CHOOSE i \in colons : \A j \in colons : i <= j) - 1)

\* chars.split()[-1]; no word at all is the empty sequence
last_word(chars) ==
    LET inked == {i \in 1..Len(chars) : chars[i] # " "}
    IN IF inked = {} THEN <<>>
       ELSE LET e == CHOOSE i \in inked : \A j \in inked : j <= i
                b == CHOOSE i \in 1..e :
                        /\ \A j \in i..e : j \in inked
                        /\ \A k \in 1..(i - 1) : \E j \in k..e : j \notin inked
            IN SubSeq(chars, b, e)

Digits == {"0", "1", "2", "3", "4", "5", "6", "7", "8", "9"}
DigitValue(c) == CHOOSE d \in 0..9 : Digit(d) = c

\* int(word) of a word of digits
RECURSIVE int(_)
int(word) ==
    IF Len(word) = 1 THEN DigitValue(word[1])
    ELSE 10 * int(SubSeq(word, 1, Len(word) - 1)) + DigitValue(word[Len(word)])

\* seg_num = int(item_text.split(':')[0].split()[-1]) - 1 inside try / except:
\* ok is FALSE when the statement raises
seg_num(item_text) ==
    LET word == last_word(before_colon(item_text))
    IN IF word # <<>> /\ \A i \in 1..Len(word) : word[i] \in Digits
       THEN [ok |-> TRUE, value |-> int(word) - 1]
       ELSE [ok |-> FALSE, value |-> 0]

\* The operators below work on a record u of the list self.trim_segments is
\* bound to, the items of the widget, and the export thread's list.
Lists == [trim_segments |-> trim_segments, segments_list |-> segments_list,
          segments |-> segments]

\* the loop of _refresh_segment_list over enumerate(self.trim_segments, 1)
refreshed_items(list) == [i \in 1..Len(list) |-> Item(refreshed_text(i, list[i]), list[i])]

\* VideoTrimmerApp._refresh_segment_list
_refresh_segment_list(u) == [u EXCEPT !.segments_list = refreshed_items(u.trim_segments)]

\* VideoTrimmerApp.add_segment with a capture held
add_segment(u, in_point, out_point) ==
    IF in_point >= out_point THEN u
    ELSE LET segment == Segment(in_point, out_point)
             list == Append(u.trim_segments, segment)
         IN [u EXCEPT !.trim_segments = list,
                      !.segments_list = Append(@, Item(added_text(Len(list), segment),
                                                       segment))]

\* VideoTrimmerApp.remove_segment, current_row the selected row counted from 0
remove_segment(u, current_row) ==
    IF current_row >= 0
    THEN _refresh_segment_list(
             [u EXCEPT !.segments_list = Without(@, current_row + 1),
                       !.trim_segments = Without(@, current_row + 1)])
    ELSE u

\* VideoTrimmerApp.clear_segments with the question answered Yes
clear_segments(u) ==
    IF u.trim_segments # <<>>
    THEN [u EXCEPT !.segments_list = <<>>, !.trim_segments = <<>>]
    ELSE u

\* the loop of _on_segments_reordered over the first count items
RECURSIVE new_segments(_, _)
new_segments(u, count) ==
    IF count = 0 THEN <<>>
    ELSE LET sofar == new_segments(u, count - 1)
             n == seg_num(u.segments_list[count].text)
         IN IF n.ok /\ 0 <= n.value /\ n.value < Len(u.trim_segments)
            THEN Append(sofar, u.trim_segments[n.value + 1])
            ELSE sofar

\* VideoTrimmerApp._on_segments_reordered; the assignment binds
\* self.trim_segments to a new list, and a list the export thread was handed
\* stays as it was
_on_segments_reordered(u) ==
    LET new == new_segments(u, Len(u.segments_list))
    IN IF Len(new) = Len(u.trim_segments)
       THEN _refresh_segment_list(
                [u EXCEPT !.trim_segments = new,
                          !.segments = IF @.same
                                       THEN [same |-> FALSE, list |-> u.trim_segments]
                                       ELSE @])
       ELSE u

\* the list widget moves the dragged row (InternalMove): the item of row
\* from is taken out and put in as row to, rows counted from 1
moved(items, from, to) ==
    LET rest == Without(items, from)
    IN SubSeq(rest, 1, to - 1) \o <<items[from]>> \o SubSeq(rest, to, Len(rest))

\* a handler of the segment list runs to its return
Lists_set(u) ==
    /\ trim_segments' = u.trim_segments
    /\ segments_list' = u.segments_list
    /\ segments' = u.segments
    /\ UNCHANGED <<timeline, video_frame>>
    /\ UNCHANGED handler_vars
    /\ UNCHANGED exporter_vars

AddSegment ==
    /\ cap.held
    /\ Len(trim_segments) < MaxList
    /\ Lists_set(add_segment(Lists, timeline.in_point, timeline.out_point))

RemoveSegment(current_row) ==
    /\ current_row < Len(segments_list)
    /\ Lists_set(remove_segment(Lists, current_row))

ClearSegments == Lists_set(clear_segments(Lists))

\* a drag inside the list widget, then rowsMoved
Reorder(from, to) ==
    /\ from # to
    /\ Lists_set(_on_segments_reordered(
                     [Lists EXCEPT !.segments_list = moved(@, from, to)]))

\* where the mouse drops the in and the out marker
MarkFrames == {BadFrameB - 1, FrameCountA + Beyond}

\* a window with the source file on disk and nothing loaded
InitSegments == InitExport /\ files = {Source}

\* The user loads the long video, drags the in and out markers, and adds,
\* removes, clears and drags segments.
NextSegments ==
    \/ WindowLoadVideo("A")
    \/ \E frame \in MarkFrames : UpdateInPointFromMouse(frame)
    \/ \E frame \in MarkFrames : UpdateOutPointFromMouse(frame)
    \/ AddSegment
    \/ \E current_row \in 0..(MaxList - 1) : RemoveSegment(current_row)
    \/ ClearSegments
    \/ \E from \in 1..Len(segments_list), to \in 1..Len(segments_list) : Reorder(from, to)

SpecSegments == InitSegments /\ [][NextSegments]_vars

\* export_segments has returned or raised
Ended == run.pc \in {"report", "done"}

\* the list the export thread iterates
SegmentsOf == IF segments.same THEN trim_segments ELSE segments.list

\* export_project with the save dialog and the confirmation answered: the
\* export thread is started; confirmed keeps what trim_segments held then
ConfirmExport ==
    /\ At("idle")
    /\ current_video # "none"
    /\ trim_segments # <<>>
    /\ run' = [NoRun EXCEPT !.pc = "thread", !.confirmed = trim_segments, !.files0 = files]
    /\ UNCHANGED <<cancel_requested, process, files, procs, canceller, status, shown>>
    /\ UNCHANGED handler_vars
    /\ UNCHANGED window_vars

\* do_export on the export thread: the arguments of export_segments are
\* evaluated, segments=self.trim_segments hands over the list itself
DoExport ==
    /\ At("thread")
    /\ segments' = [same |-> TRUE, list |-> <<>>]
    /\ run' = Goto("entry")
    /\ UNCHANGED <<cancel_requested, process, files, procs, canceller, status, shown>>
    /\ UNCHANGED handler_vars
    /\ UNCHANGED <<trim_segments, segments_list, timeline, video_frame>>

\* export_segments, the checks of its arguments, on the list as it is now
ExportSegmentsLive ==
    /\ At("entry")
    /\ run' = IF SegmentsOf = <<>> THEN Raise("ValueError", "report")
              ELSE IF Source \notin files THEN Raise("FileNotFoundError", "report")
              ELSE Goto("reset")
    /\ UNCHANGED <<cancel_requested, process, files, procs, canceller, status, shown>>
    /\ UNCHANGED handler_vars
    /\ UNCHANGED window_vars

\* the head of the for loop of _export_separate on the list as it is now: the
\* iterator ends when its index has reached the length the list has now
LoopHeadLive ==
    /\ At("loop")
    /\ run' = IF run.idx > Len(SegmentsOf) THEN Goto("report")
              ELSE IF cancel_requested THEN Goto("report")
              ELSE [run EXCEPT
                      !.pc = "status",
                      !.kind = "encode",
                      !.n = Len(SegmentsOf),
                      !.segment = SegmentsOf[run.idx],
                      !.path = get_unique_filename(files,
                                   segment_path(run.output_path, run.idx))]
    /\ UNCHANGED <<cancel_requested, process, files, procs, canceller, status, shown>>
    /\ UNCHANGED handler_vars
    /\ UNCHANGED window_vars

\* The user loads the long video, sets the out marker, makes segments and
\* confirms an export into separate files; until the export thread has ended,
\* with encoders that succeed, the user goes on adding, removing, clearing and
\* dragging segments.
NextLive ==
    \/ current_video = "none" /\ WindowLoadVideo("A")
    \/ At("idle") /\ \E frame \in MarkFrames : UpdateOutPointFromMouse(frame)
    \/ ~Ended /\ AddSegment
    \/ ~Ended /\ \E current_row \in 0..(MaxList - 1) : RemoveSegment(current_row)
    \/ ~Ended /\ ClearSegments
    \/ /\ ~Ended
       /\ \E from \in 1..Len(segments_list), to \in 1..Len(segments_list) : Reorder(from, to)
    \/ ConfirmExport
    \/ DoExport
    \/ ExportSegmentsLive
    \/ ResetCancel
    \/ LoopHeadLive
    \/ ReportProgress
    \/ Popen(TRUE)
    \/ \E i \in 1..Len(procs) : EncoderExits(i, 0, TRUE)
    \/ Communicate
    \/ CheckReturncode
    \/ Finally
    \/ Report

SpecLive == InitSegments /\ [][NextLive]_vars


\* ------------------------------------------------------------ the claims
Loaded == cap.held /\ cap.opened
Served == last.op \in {"get_current_frame", "get_frame_at_position"} /\ ~last.none
LastWindow == Only(last.log, "prefetch")
Sets == Only(last.log, "set")

\* C1: after a get_current_frame or get_frame_at_position call that served
\* frame i, get_current_position() is i + 1, and after a bare seek(n) on a
\* loaded video it is n, whether the frame came from the cache or the decoder
\* and whatever prefetch the call ran.
C1_CursorFollowsServedFrame ==
    /\ Served => get_current_position(Handler) = last.arg + 1 /\ last.val.idx = last.arg
    /\ (last.op = "seek" /\ Loaded) => get_current_position(Handler) = last.arg

\* a miss of get_frame_at_position that decoded the frame and ran both prefetches
C1_Witness ==
    /\ last.op = "get_frame_at_position" /\ ~last.hit0 /\ ~last.none
    /\ Len(LastWindow) = 2
    /\ Count(last.log, "put") > 2
    /\ get_current_position(Handler) = last.arg + 1

\* C2: with a fixed capacity C >= 1 the cache never holds more than C entries,
\* neither after a call nor at any moment inside it, and never two entries
\* under one frame index.
C2_CacheWithinCapacity ==
    /\ Len(frame_cache) <= cache_size
    /\ last.peak <= cache_size
    /\ \A i, j \in 1..Len(frame_cache) : frame_cache[i].key = frame_cache[j].key => i = j

\* a sweep that filled the cache and went on evicting
C2_Witness ==
    /\ Len(frame_cache) = cache_size
    /\ last.peak = cache_size
    /\ Count(last.log, "evict") > cache_size

\* C3: every eviction removes the entry whose last touch (insertion or hit) is
\* oldest, and after every call the cache holds the keys of the reference LRU
\* cache in the same recency order.
C3_StrictLRU ==
    /\ last.lru
    /\ Keys(frame_cache) = ref

\* evictions from a full cache whose oldest entry was not its smallest index:
\* a hit had refreshed an entry, so a later-inserted one went first
C3_Witness ==
    LET ev == Only(last.log, "evict")
    IN /\ last.len0 = cache_size /\ cache_size = MaxCap
       /\ Len(ev) >= MaxCap
       /\ ev[MaxCap - 1].a > ev[MaxCap].a
       /\ last.lru

\* C4: the cache only holds frames of the video the decoder handle is on, each
\* under its own index, so after load_video(B) nothing decoded from A is left
\* and every frame served afterwards comes from B.
C4_NoFrameOfPreviousVideo ==
    /\ \A i \in 1..Len(frame_cache) :
          /\ frame_cache[i].frame.vid = cap.vid
          /\ frame_cache[i].frame.idx = frame_cache[i].key
    /\ Served => last.val.vid = cap.vid

\* load_video of another video while frames of the previous one were cached
C4_Witness ==
    /\ last.op = "load_video" /\ last.ok
    /\ last.len0 > 0 /\ last.vid0 \in Videos /\ last.vid0 # cap.vid
    /\ Len(frame_cache) > 0

\* C5: a handler with the cache and the same handler without it, given the
\* same calls, return the same frames and the same none results, and every
\* frame returned for index i is what a fresh decode of i produces.
C5_CacheTransparent ==
    last.op \in {"get_current_frame", "get_frame_at_position"} =>
        /\ last.val = twin_ret
        /\ ~last.none => last.val = Decoded(cap.vid, last.arg)

\* a frame served from the cache
C5_Witness ==
    /\ Served /\ last.hit0 /\ cache_enabled
    /\ last.val = Decoded(cap.vid, last.arg)
    /\ twin_ret = last.val

\* C6: the frame handed to the caller never shares its buffer with a cache
\* entry, so what the caller writes into it never reaches the cache.
C6_NoAliasing ==
    /\ ret # NoFrame => ret.buf \notin Bufs(frame_cache)
    /\ \A i \in 1..Len(frame_cache) : ~frame_cache[i].frame.dirty

\* the caller wrote into a returned frame whose index is cached
C6_Witness ==
    /\ last.op = "mutate" /\ ret.dirty
    /\ ret.idx \in KeySet(frame_cache)

PositionWindow(n) ==
    [c |-> "prefetch", a |-> Max(0, n - SeekBehind),
     b |-> Min(n + PositionAhead, frame_count)]

\* C7 as stated: every get_frame_at_position(index) on a loaded video with the
\* cache enabled, hit or miss, ends with the prefetch of
\* [max(0, index-5), min(index+15, frame_count)).
C7_AlwaysEndsWithPrefetch ==
    (last.op = "get_frame_at_position" /\ Loaded /\ cache_enabled) =>
        /\ Len(LastWindow) > 0
        /\ LastWindow[Len(LastWindow)] = PositionWindow(last.arg)

\* C7 amended: on a miss the call ends with the prefetch of that window (its
\* last decoder call is the restoring seek of that prefetch); on a hit it
\* returns without any prefetch.
C7_MissEndsWithPrefetch ==
    (last.op = "get_frame_at_position" /\ Loaded /\ cache_enabled) =>
        IF last.hit0
        THEN Len(LastWindow) = 0
        ELSE /\ Len(LastWindow) > 0
             /\ LastWindow[Len(LastWindow)] = PositionWindow(last.arg)
             /\ last.log[Len(last.log)].c = "set"

\* a miss whose window is cut neither at 0 nor at frame_count
C7_Witness ==
    /\ last.op = "get_frame_at_position" /\ Loaded /\ cache_enabled /\ ~last.hit0
    /\ last.arg > SeekBehind /\ last.arg + PositionAhead < frame_count
    /\ LastWindow[Len(LastWindow)] = PositionWindow(last.arg)

\* C8 as stated: a hit of get_frame_at_position(index) returns a copy, leaves
\* the cursor at index + 1 and issues neither a decoder read nor a decoder seek.
C8_HitWithoutSeek ==
    (last.op = "get_frame_at_position" /\ last.hit0) =>
        /\ ~last.none
        /\ get_current_position(Handler) = last.arg + 1
        /\ Count(last.log, "read") = 0
        /\ Count(last.log, "set") = 0

\* C8 amended: a hit returns a copy and issues no decoder read and no
\* prefetch; it positions the decoder once, at index + 1.
C8_HitWithoutRead ==
    (last.op = "get_frame_at_position" /\ last.hit0) =>
        /\ ~last.none
        /\ last.val = Decoded(cap.vid, last.arg)
        /\ get_current_position(Handler) = last.arg + 1
        /\ Count(last.log, "read") = 0
        /\ Len(LastWindow) = 0
        /\ Sets = <<[c |-> "set", a |-> last.arg + 1, b |-> 0]>>

\* a hit on an index away from the cursor
C8_Witness ==
    /\ last.op = "get_frame_at_position" /\ last.hit0 /\ ~last.none
    /\ last.pos0 # last.arg
    /\ get_current_position(Handler) = last.arg + 1

C10_ShrinkEvicts ==
    /\ Len(frame_cache) <= cache_size
    /\ (last.op = "set_cache_settings" /\ last.len0 > cache_size) =>
          Len(frame_cache) = cache_size

\* C11: while the cache is disabled no call stores or finds a frame, the cache
\* does not grow, a requested index that is still cached is decoded again, and
\* a get_current_frame that returns a frame made exactly one decoder read, at
\* the cursor, and returns what that read produced.
C11_DisabledCacheInert ==
    (~cache_enabled /\ last.op \in {"get_current_frame", "get_frame_at_position",
                                    "seek", "load_video"}) =>
        /\ Count(last.log, "put") = 0
        /\ Count(last.log, "hit") = 0
        /\ Len(frame_cache) <= last.len0
        /\ (last.op = "get_frame_at_position" /\ cap.held) =>
              /\ last.log[1] = [c |-> "set", a |-> last.arg, b |-> 0]
              /\ Count(last.log, "read") = 1
        /\ (last.op = "get_current_frame" /\ ~last.none) =>
              /\ Only(last.log, "read") = <<[c |-> "read", a |-> last.pos0, b |-> 1]>>
              /\ last.val = Decoded(cap.vid, last.pos0)

\* the cache was switched off with frames in it, and the frame at the cursor,
\* one of them, was decoded again
C11_Witness ==
    /\ ~cache_enabled /\ last.op = "get_current_frame" /\ ~last.none
    /\ last.pos0 \in KeySet(frame_cache)
    /\ Count(last.log, "read") = 1

\* ---- the sweeps of the last call, read off its log
\* a sweep's events run from its "prefetch" entry to the next one or the end
SweepStarts == {i \in 1..Len(last.log) : last.log[i].c = "prefetch"}
SweepEnd(i) ==
    LET later == {j \in SweepStarts : j > i}
    IN IF later = {} THEN Len(last.log)
       ELSE (CHOOSE j \in later : \A k \in later : j <= k) - 1

\* the decoder position after the first i events of the last call: that of
\* the latest set or read among them, or the one the call started with
PosAfter(i) ==
    LET moves == {j \in 1..i : last.log[j].c \in {"set", "read"}}
    IN IF moves = {} THEN (IF last.op = "load_video" THEN 0 ELSE last.pos0)
       ELSE LET e == last.log[CHOOSE j \in moves : \A k \in moves : k <= j]
            IN IF e.c = "read" THEN e.a + e.b
               ELSE IF cap.opened THEN e.a ELSE 0

\* C12: every prefetch sweep leaves the decoder at the position it had when
\* the sweep began, whatever mix of cached, decodable and undecodable indices
\* its window holds.
C12_SweepRestoresPosition ==
    \A i \in SweepStarts : PosAfter(SweepEnd(i)) = PosAfter(i)

\* a sweep that began away from its window and met a cached index, a
\* decodable one and an undecodable one
C12_Witness ==
    \E i \in SweepStarts :
        LET events == {last.log[j] : j \in (i + 1)..SweepEnd(i)}
        IN /\ \E e \in events : e.c = "skip"
           /\ \E e \in events : e.c = "read" /\ e.b = 1
           /\ \E e \in events : e.c = "read" /\ e.b = 0
           /\ PosAfter(i) # last.log[i].a
           /\ PosAfter(SweepEnd(i)) = PosAfter(i)

\* the frame numbers a sweep went through, in order, cached ones included (the
\* sweep's last event is the restoring set, which is no attempt)
Attempts(i) ==
    LET events == SubSeq(last.log, i + 1, SweepEnd(i) - 1)
        tried == SelectSeq(events, LAMBDA e : e.c \in {"skip", "set"})
    IN [k \in 1..Len(tried) |-> tried[k].a]

\* lo, lo + 1, ..., hi - 1
Range(lo, hi) == [k \in 1..Max(0, hi - lo) |-> lo + k - 1]

\* the last n elements of a sequence
LastOf(q, n) == SubSeq(q, Len(q) - n + 1, Len(q))

ForwardWindow(n) ==
    IF Min(n + AdvanceAhead, frame_count) > n + 1
    THEN <<[c |-> "prefetch", a |-> n + 1, b |-> Min(n + AdvanceAhead, frame_count)]>>
    ELSE <<>>

SeekWindow(n) ==
    [c |-> "prefetch", a |-> Max(0, n - SeekBehind), b |-> Min(n + SeekAhead, frame_count)]

\* C14: with the cache enabled, a get_current_frame that misses and decodes
\* frame N prefetches exactly N+1 .. min(N+10, frame_count)-1 (nothing when
\* that range is empty); seek(N) on a loaded video sets the cursor to N,
\* returns no frame, reads only inside its prefetch and prefetches exactly
\* max(0, N-5) .. min(N+20, frame_count)-1; every sweep goes through exactly
\* the indices of its window, none below 0 and none at or above frame_count.
C14_PrefetchWindows ==
    /\ (last.op = "get_current_frame" /\ cache_enabled /\ ~last.hit0 /\ ~last.none) =>
          /\ last.log[1] = [c |-> "read", a |-> last.arg, b |-> 1]
          /\ LastWindow = ForwardWindow(last.arg)
    /\ (last.op = "seek" /\ cache_enabled /\ Loaded) =>
          /\ last.none
          /\ last.log[1] = [c |-> "set", a |-> last.arg, b |-> 0]
          /\ get_current_position(Handler) = last.arg
          /\ LastWindow = <<SeekWindow(last.arg)>>
          /\ \A j \in 1..Len(last.log) : last.log[j].c = "read" => j > 2
    /\ \A i \in SweepStarts :
          /\ cache_enabled /\ cap.held =>
                Attempts(i) = Range(last.log[i].a, Min(last.log[i].b, frame_count))
          /\ \A k \in 1..Len(Attempts(i)) :
                Attempts(i)[k] >= 0 /\ Attempts(i)[k] < frame_count

\* a seek whose window is cut neither at 0 nor at frame_count
C14_Witness ==
    /\ last.op = "seek" /\ cache_enabled /\ Loaded
    /\ last.arg > SeekBehind /\ last.arg + SeekAhead < frame_count
    /\ LastWindow = <<SeekWindow(last.arg)>>
    /\ Len(Attempts(2)) = SeekBehind + SeekAhead

\* the frame numbers the last call stored, and those its sweeps found cached
PutKeys == {last.log[j].a : j \in {k \in 1..Len(last.log) : last.log[k].c = "put"}}
SkippedKeys == {last.log[j].a : j \in {k \in 1..Len(last.log) : last.log[k].c = "skip"}}

\* C15: a sweep that comes to an index already cached issues no decoder seek
\* or read for it and neither stores nor looks up its entry; after a seek (a
\* call whose only cache activity is its sweep) the entries the sweep did not
\* store are in the order they had before, ahead of every entry it stored.
C15_CachedIndexUntouched ==
    /\ \A i \in SweepStarts : \A j \in (i + 1)..SweepEnd(i) :
          last.log[j].c = "skip" =>
              \A k \in (i + 1)..(SweepEnd(i) - 1) :
                  last.log[k].c \in {"set", "read", "put", "hit", "evict"} =>
                      \/ last.log[k].a # last.log[j].a
                      \/ last.log[k].c = "evict" /\ k > j
    /\ last.op = "seek" =>
          LET old == SelectSeq(last.keys0,
                               LAMBDA k : k \in KeySet(frame_cache) /\ k \notin PutKeys)
          IN /\ SkippedKeys \subseteq {last.keys0[k] : k \in 1..Len(last.keys0)}
             /\ SubSeq(Keys(frame_cache), 1, Len(old)) = old

\* a seek whose sweep found two cached indices, stored another frame, and
\* left the two in the cache
C15_Witness ==
    /\ last.op = "seek"
    /\ Cardinality(SkippedKeys \cap KeySet(frame_cache)) >= 2
    /\ PutKeys # {}
    /\ Keys(frame_cache)[1] \in SkippedKeys

\* C16: when the read of an index fails inside a sweep, nothing is stored
\* under that index, every later index of the window is still gone through,
\* the sweep ends with its restoring seek and the call returns normally.
C16_SweepSkipsFailedRead ==
    \A i \in SweepStarts : \A j \in (i + 1)..SweepEnd(i) :
        (last.log[j].c = "read" /\ last.log[j].b = 0) =>
            LET failed == last.log[j - 1]
                stop == Min(last.log[i].b, frame_count)
                tried == {Attempts(i)[k] : k \in 1..Len(Attempts(i))}
            IN /\ failed.c = "set"
               /\ failed.a \notin PutKeys
               /\ failed.a \notin KeySet(frame_cache)
               /\ \A n \in (failed.a + 1)..(stop - 1) : n \in tried
               /\ last.log[SweepEnd(i)].c = "set"
               /\ last.op \in {"load_video", "get_current_frame",
                               "get_frame_at_position", "seek"}

\* a sweep over an opened video met a frame that does not decode and stored
\* a later frame of its window
C16_Witness ==
    /\ Loaded
    /\ \E i \in SweepStarts : \E j \in (i + 1)..SweepEnd(i) :
          /\ last.log[j].c = "read" /\ last.log[j].b = 0
          /\ \E k \in (j + 1)..SweepEnd(i) :
                last.log[k].c = "put" /\ last.log[k].a > last.log[j - 1].a

\* C17: with no decoder handle (never loaded, or released) get_current_frame
\* and get_frame_at_position return no frame, seek does nothing, the position
\* reads 0, and none of them touches the decoder, the cache or creates a handle.
C17_UnloadedCallsDoNothing ==
    /\ ~cap.held => get_current_position(Handler) = 0
    /\ (last.op \in {"get_current_frame", "get_frame_at_position", "seek"}
           /\ ~last.held0) =>
          /\ last.none /\ ret = NoFrame
          /\ last.log = <<>>
          /\ cap = NoCap
          /\ Keys(frame_cache) = last.keys0
          /\ frame_cache = <<>>

\* after a release, a frame of the video that had been loaded is asked for
C17_Witness ==
    /\ last.op = "get_frame_at_position" /\ ~last.held0
    /\ current_video \in Videos /\ last.arg < frame_count
    /\ last.none /\ cap = NoCap

\* the releases of the capture the handler held when the call began; the
\* captures of the backend loop are released under their backend's number
HandleReleases == {j \in 1..Len(last.log) : last.log[j].c = "release" /\ last.log[j].a = 0}

\* C18: after release there is no decoder handle and the cache is empty; a
\* release with no handle changes nothing; the capture the handler holds is
\* released exactly when the handler lets go of it (in release and in
\* load_video, once), never by another call and never when there is none.
C18_ReleaseIdempotent ==
    /\ last.op = "release" => cap = NoCap /\ frame_cache = <<>> /\ last.none
    /\ (last.op = "release" /\ ~last.held0) =>
          /\ last.keys0 = <<>>
          /\ Only(last.log, "clear") = last.log
    /\ last.op # "idle" =>
          Cardinality(HandleReleases) =
              IF last.held0 /\ last.op \in {"release", "load_video"} THEN 1 ELSE 0
    /\ last.op # "load_video" => Count(last.log, "release") = Cardinality(HandleReleases)

\* release called again after a video had been loaded and released
C18_Witness ==
    /\ last.op = "release" /\ ~last.held0
    /\ current_video \in Videos
    /\ Count(last.log, "release") = 0
    /\ cap = NoCap /\ frame_cache = <<>>

\* the constructor calls of the last call, in order: a = number of the backend
\* (Default for the call without one), b = 1 opened, 0 not opened, -1 raised
Opens == Only(last.log, "open")

C20_BackendFallback ==
    last.op = "load_video" =>
        /\ Len(Opens) >= 1
        /\ [k \in 1..Len(Opens) |-> Opens[k].a] = Range(1, Len(Opens) + 1)
        /\ \A k \in 1..(Len(Opens) - 1) : Opens[k].b # 1
        /\ Opens[Len(Opens)].b = 1 \/ Len(Opens) = Default
        /\ \A j \in 1..Len(last.log) :
              last.log[j].c = "open" =>
                 LET e == last.log[j]
                     next == IF j < Len(last.log) THEN last.log[j + 1]
                             ELSE [c |-> "end", a |-> 0, b |-> 0]
                 IN /\ (e.b = 0 /\ e.a < Default) =>
                          next = [c |-> "release", a |-> e.a, b |-> 0]
                    /\ e.b = -1 => next.c = "open" /\ next.a = e.a + 1
                    /\ e.b = 1 => next.c # "open" /\ next.c # "release"
        /\ \A j \in 1..Len(last.log) :
              (last.log[j].c = "release" /\ last.log[j].a > 0) =>
                  j > 1 /\ last.log[j - 1] = [c |-> "open", a |-> last.log[j].a, b |-> 0]
        /\ (\E k \in 1..Len(Opens) : Opens[k].b = 1) => cap.held /\ cap.opened /\ last.ok

\* the first backend reports not opened, the second raises, the third opens
\* and the fourth is not tried
C20_Witness ==
    /\ last.op = "load_video" /\ last.ok
    /\ [k \in 1..Len(Opens) |-> Opens[k].b] = <<0, -1, 1>>
    /\ Len(Opens) < Len(Backends)

\* C21 as stated: get_frame_at_position(index) with index >= frame_count on a
\* loaded video returns no frame and adds no entry to the cache.
C21_OutOfRangeAddsNothing ==
    (last.op = "get_frame_at_position" /\ Loaded /\ last.arg >= frame_count) =>
        /\ last.none
        /\ Count(last.log, "put") = 0
        /\ Keys(frame_cache) = last.keys0

\* C21 amended: such a call seeks to index, fails its one read for the caller
\* and returns no frame; it caches nothing under index, and what it does
\* cache are frames of its window max(0, index-5) .. frame_count-1, so nothing
\* at all once index >= frame_count + 5.
C21_OutOfRangeCachesOnlyWindow ==
    (last.op = "get_frame_at_position" /\ Loaded /\ last.arg >= frame_count) =>
        /\ last.none /\ ret = NoFrame
        /\ last.log[1] = [c |-> "set", a |-> last.arg, b |-> 0]
        /\ last.log[2] = [c |-> "read", a |-> last.arg, b |-> 0]
        /\ last.arg \notin KeySet(frame_cache)
        /\ \A k \in PutKeys : k >= Max(0, last.arg - SeekBehind) /\ k < frame_count
        /\ last.arg >= frame_count + SeekBehind =>
              Count(last.log, "put") = 0 /\ Keys(frame_cache) = last.keys0

\* an index just past the end: no frame is returned, and the last frames of
\* the video enter the cache
C21_Witness ==
    /\ last.op = "get_frame_at_position" /\ Loaded /\ last.arg >= frame_count
    /\ last.none
    /\ PutKeys # {}
    /\ frame_count - 1 \in KeySet(frame_cache)

\* the reads a frame access makes for the frame it was asked for, before any
\* prefetch sweep starts
DemandReads ==
    {j \in 1..Len(last.log) :
        /\ last.log[j].c = "read"
        /\ \A i \in SweepStarts : j < i}
FailedReads == {j \in DemandReads : last.log[j].b = 0}

\* C22: when the read of get_current_frame or get_frame_at_position fails on a
\* loaded handler (undecodable frame, or the cursor at or past frame_count),
\* the call returns none without raising, the index that was read is neither
\* stored by the call nor in the cache afterwards, and the handler stays
\* loaded on the same video; a get_frame_at_position that follows such a
\* failure serves the frame asked for when that index is decodable, a seek
\* that follows it moves the cursor, and get_current_frame serves the frame
\* under the cursor whenever that one is decodable.
C22_SoftDecodeFailure ==
    /\ (/\ last.op \in {"get_current_frame", "get_frame_at_position"}
        /\ last.held0
        /\ Openable(last.vid0)
        /\ FailedReads # {})
       => /\ last.none
          /\ ret = NoFrame
          /\ last.ok
          /\ \A j \in FailedReads :
                /\ last.log[j].a \notin PutKeys
                /\ last.log[j].a \notin KeySet(frame_cache)
          /\ Loaded
          /\ cap.vid = last.vid0
    /\ (/\ last.failed0
        /\ last.op = "get_frame_at_position"
        /\ last.arg \in 0..(frame_count - 1) \ BadFramesOf(cap.vid))
       => /\ Loaded
          /\ ~last.none
          /\ last.val.idx = last.arg
          /\ last.val.vid = current_video
    /\ (last.failed0 /\ last.op = "seek")
       => /\ Loaded
          /\ get_current_position(Handler) = last.arg
    /\ (/\ last.op = "get_current_frame"
        /\ Loaded
        /\ last.held0
        /\ last.pos0 \in 0..(frame_count - 1) \ BadFramesOf(cap.vid))
       => /\ ~last.none
          /\ ~last.none
          /\ last.val.idx = last.pos0
          /\ last.val.vid = current_video

\* a frame is served by the call that follows one that found no frame: once by
\* get_frame_at_position, once by get_current_frame after a seek
C22_Witness ==
    /\ last.failed0
    /\ last.op = "get_frame_at_position"
    /\ ~last.none
    /\ last.val.idx = last.arg
    /\ last.pos0 = BadFrameB

Reads == Count(last.log, "read")

\* C30: a call makes no more decoder reads than its windows allow, whatever
\* the capacity and the cache content: load_video at most 30 and at most
\* frame_count, get_current_frame at most 10 (the frame and the nine after
\* it) and at most what is left of the video, get_frame_at_position at most
\* 30 (those ten and a window of twenty), seek at most 25 and at most
\* frame_count; the other operations read nothing.
C30_BoundedReads ==
    /\ last.op = "load_video" => Reads <= Min(WarmupFrames, frame_count)
    /\ last.op = "get_current_frame" =>
          /\ Reads <= AdvanceAhead
          /\ Reads <= Max(1, frame_count - last.pos0)
    /\ last.op = "get_frame_at_position" =>
          /\ Reads <= AdvanceAhead + SeekBehind + PositionAhead
          /\ Reads <= Max(1, frame_count - last.arg) + frame_count
    /\ last.op = "seek" =>
          /\ Reads <= SeekBehind + SeekAhead
          /\ Reads <= frame_count
    /\ last.op \notin {"load_video", "get_current_frame", "get_frame_at_position", "seek"} =>
          Reads = 0

\* a get_frame_at_position that makes all thirty reads
C30_Witness ==
    /\ last.op = "get_frame_at_position"
    /\ Reads = AdvanceAhead + SeekBehind + PositionAhead

\* ------------------------------------------------------------ the exporter
Launched == {i \in 1..Len(procs) : procs[i].st # "not_started"}

\* C23: once cancel_export has returned while export_segments is in progress,
\* the run launches no further external process: no process of the run was
\* launched after such a return.
C23_NoLaunchAfterCancel ==
    \A i \in Launched : ~procs[i].after_cancel

\* C24: when cancel_export was called while export_segments was in progress
\* on arguments it accepts, export_segments raises nothing and do_export
\* queues neither the error dialog nor the success dialog.
C24_CancelledRunShowsNothing ==
    (Ended /\ canceller.in_run /\ run.exc \notin {"ValueError", "FileNotFoundError"}) =>
        /\ run.exc = "none"
        /\ shown = <<>>

\* the encoder of launch i could not be started, or ended with a code other than 0
Failed(i) ==
    \/ procs[i].st = "not_started"
    \/ procs[i].st = "exited" /\ procs[i].code # 0

\* C25: when no cancel_export was called and an encoder cannot be started or
\* exits non-zero, that launch is the last of the run (the step is not run
\* again, no later segment and no concat step is launched), export_segments
\* raises the failure, and do_export queues the error dialog and no success
\* dialog.
C25_FailureSurfaces ==
    ~canceller.requested =>
        \A i \in 1..Len(procs) :
            Failed(i) =>
                /\ i = Len(procs)
                /\ run.pc \in {"communicate", "check", "except", "finally", "cleanup",
                               "report", "done"}
                /\ run.pc \in {"cleanup", "report", "done"} =>
                      run.exc = IF procs[i].st = "not_started" THEN "OSError"
                                ELSE "Export failed"
                /\ run.pc = "done" => shown = <<"Export Error">>

\* the first of two segments failed without any cancel: the run is over, the
\* second segment was never launched and the error dialog is queued
C25_Witness ==
    /\ ~canceller.requested
    /\ run.pc = "done"
    /\ run.n = MaxSegments
    /\ Len(procs) = 1
    /\ procs[1].st = "exited"
    /\ procs[1].code # 0
    /\ run.exc = "Export failed"
    /\ shown = <<"Export Error">>

\* _export_combined was entered and has ended
CombinedEnded ==
    Ended /\ run.combine /\ run.exc \notin {"ValueError", "FileNotFoundError"}

\* C26: when _export_combined has ended, however it ended, no temporary
\* segment file that an encoder of the run wrote exists any more, and the
\* concat list file does not exist.
C26_TempFilesRemoved ==
    CombinedEnded =>
        /\ \A i \in 1..Len(procs) :
              (procs[i].kind = "encode" /\ procs[i].wrote) => procs[i].target \notin files
        /\ concat_file(run.output_path) \notin files

\* path is what get_unique_filename owes for file_path when fs exist: the
\* path itself when free, else the first free one of base_1.ext, base_2.ext, ...
UniqueFor(fs, file_path, path) ==
    LET s == splitext(file_path)
    IN /\ path \notin fs
       /\ file_path \notin fs => path = file_path
       /\ file_path \in fs =>
             \E k \in 1..Cardinality(fs) :
                /\ path = Suffixed(s.base, k, s.ext)
                /\ \A j \in 1..(k - 1) : Suffixed(s.base, j, s.ext) \in fs

SeparateTargets == {i \in 1..Len(procs) : ~run.combine /\ procs[i].kind = "encode"}

\* C27: the path get_unique_filename has just returned (for a segment of a
\* separate export, for the output of a combined one) is the requested path
\* when no such file exists, else base_k.ext for the smallest k >= 1 that
\* names no existing file, and names no existing file; the targets of a
\* separate export are none of the files found before the run and differ
\* from segment to segment.
C27_UniqueFilename ==
    /\ (~run.combine /\ At("status")) =>
          UniqueFor(files, segment_path(run.output_path, run.idx), run.path)
    /\ (run.combine /\ At("loop") /\ run.idx = 1) =>
          UniqueFor(files, Out, run.output_path)
    /\ \A i \in SeparateTargets :
          /\ procs[i].target \notin run.files0
          /\ \A j \in SeparateTargets : procs[i].target = procs[j].target => i = j

\* a separate export of two segments where segment 1 found both its name and
\* the name with suffix _1 taken, and was written under suffix _2
C27_Witness ==
    /\ ~run.combine
    /\ run.pc = "done"
    /\ Len(procs) = MaxSegments
    /\ segment_path(Out, 1) \in run.files0
    /\ procs[1].target = Suffixed(splitext(segment_path(Out, 1)).base, 2, splitext(Out).ext)
    /\ procs[1].target \in files
    /\ procs[2].target = segment_path(Out, 2)

Encodes == {i \in 1..Len(procs) : procs[i].kind = "encode"}
Concats == {i \in 1..Len(procs) : procs[i].kind = "concat"}

\* C29: the encoders are launched in list order, each segment once, never
\* while an earlier process is still running, and each after its progress
\* message; the concat file lists the temporary files in segment order, and
\* the concat step is launched only after every segment's encoder has exited
\* with code 0.
C29_ExportOrder ==
    /\ \A i \in Encodes :
          /\ procs[i].idx = i
          /\ i <= Len(status)
          /\ status[i] = [msg |-> "Exporting segment", current |-> i, total |-> run.n]
          /\ run.combine => procs[i].target = temp_path(run.output_path, i)
    /\ \A i \in 1..Len(procs), j \in 1..Len(procs) :
          i < j => procs[i].st # "running"
    /\ \A c \in Concats :
          /\ run.combine
          /\ c = run.n + 1
          /\ \A i \in 1..run.n :
                i \in Encodes /\ procs[i].st = "exited" /\ procs[i].code = 0
          /\ run.lines = [i \in 1..run.n |-> procs[i].target]
          /\ status[Len(status)].msg = "Combining segments"
    /\ run.lines # <<>> =>
          run.lines = [i \in 1..run.n |-> temp_path(run.output_path, i)]

\* a combined export of two segments that reached and finished its concat step
C29_Witness ==
    /\ run.combine
    /\ run.n = MaxSegments
    /\ run.pc = "done"
    /\ Concats = {MaxSegments + 1}
    /\ procs[MaxSegments + 1].code = 0
    /\ procs[MaxSegments + 1].target \in files
    /\ shown = <<"Export Complete">>

\* the fields of the VideoHandler
playback == <<cap, frame_count, current_video, frame_cache, cache_size, cache_enabled>>

\* an encoder was running when the last frame access was made and is still
Overlapped == last.busy0 # 0 /\ procs[last.busy0].st = "running"

C31_KeysAreFrameIndices ==
    /\ \A i \in 1..Len(frame_cache) :
          /\ frame_cache[i].key >= 0
          /\ frame_cache[i].key < frame_count
          /\ Loaded
          /\ frame_count = FrameCountOf(cap.vid)
          /\ frame_cache[i].frame.vid = cap.vid
          /\ frame_cache[i].frame.idx = frame_cache[i].key
    /\ last # Idle => \A k \in 1..Len(last.keys0) : last.keys0[k] >= 0

\* a call with a frame number below zero returned with frames in the cache
C31_Witness ==
    /\ last # Idle
    /\ last.op \in {"get_frame_at_position", "seek"}
    /\ last.arg < 0
    /\ last.held0
    /\ Len(frame_cache) > 0
    /\ Keys(frame_cache) # last.keys0

\* ---------------------------------------------------------------- C32
\* C32: after a load_video that fails on a handler that had a video open, the
\* handler is unloaded: the old decoder handle was released, no decoder handle
\* is held, the cache is empty, and frame_count and current_video no longer
\* describe the old video.
C32_FailedLoadUnloads ==
    (/\ last # Idle
     /\ last.op = "load_video"
     /\ ~last.ok
     /\ last.held0
     /\ Openable(last.vid0))
    => /\ \E i \in 1..Len(last.log) : last.log[i].c = "release" /\ last.log[i].a = 0
       /\ ~cap.held
       /\ frame_cache = <<>>
       /\ current_video # last.vid0
       /\ frame_count # FrameCountOf(last.vid0)

\* ---------------------------------------------------------------- C33
\* C33: cancel_export is safe under every interleaving with the export
\* thread: its call of terminate never finds self.process cleared after its
\* own test found a process there, so it never raises.
C33_CancelExportNeverRaises == canceller.pc # "raised"

\* ---------------------------------------------------------------- C34
\* the encoders launched by the export now running or last run
LaunchedNow == {i \in Launched : i > run.procs0}

\* C34: a cancellation stays with the export it was issued against: when
\* cancel_export was called during an export and had finished before the next
\* export started, and is not called again, the next export, started through
\* export_segments or export_video and ending without an error, has launched
\* an encoder for each of its segments.
C34_CancelStaysInItsRun ==
    (/\ run.round = 2
     /\ run.cancelled0
     /\ canceller.in_run
     /\ canceller.round = 1
     /\ run.pc = "done"
     /\ run.exc = "none")
    => Cardinality(LaunchedNow) = run.n

\* ---------------------------------------------------------------- C37
\* a frame of the loaded video was on screen when the handler was called
OnScreen(k) == last.held0 /\ Openable(last.vid0) /\ last.val = Decoded(last.vid0, k)

\* C37: with frame k of the loaded video on screen, next_frame puts frame
\* min(k + 1, frame_count - 1) on screen and previous_frame frame
\* max(k - 1, 0), and the timeline position is the index of the frame now on
\* screen.
C37_FrameStepping ==
    \A k \in 0..(frame_count - 1) :
       /\ (last.op = "next_frame" /\ OnScreen(k)) =>
             /\ video_frame = Decoded(cap.vid, Min(k + 1, frame_count - 1))
             /\ timeline.current_position = video_frame.idx
       /\ (last.op = "previous_frame" /\ OnScreen(k)) =>
             /\ video_frame = Decoded(cap.vid, Max(k - 1, 0))
             /\ timeline.current_position = video_frame.idx

\* ---------------------------------------------------------------- C38
\* C38: the markers of the timeline stay in order and inside the timeline:
\* 0 <= in_point <= out_point <= duration and 0 <= current_position <=
\* duration, after every handler that touches the timeline, also after a
\* shorter video has been loaded.
C38_TimelineMarkersInRange ==
    /\ 0 <= timeline.in_point
    /\ timeline.in_point <= timeline.out_point
    /\ timeline.out_point <= timeline.duration
    /\ 0 <= timeline.current_position
    /\ timeline.current_position <= timeline.duration

\* ---------------------------------------------------------------- C36
\* C36: trim_segments holds the segments of the items of the list widget, in
\* the order of the items, after every add, remove, clear and drag, and every
\* segment in it has in_frame < out_frame.
C36_ListMatchesWidget ==
    /\ Len(trim_segments) = Len(segments_list)
    /\ \A i \in 1..Len(trim_segments) :
          /\ segments_list[i].segment = trim_segments[i]
          /\ trim_segments[i].in_frame < trim_segments[i].out_frame

\* ---------------------------------------------------------------- C35
\* the segments the encoders were launched for, in launch order
Encoded == [i \in 1..Len(procs) |-> procs[i].segment]

\* C35: an export that ends without an error has encoded the segments that
\* were in trim_segments when the export was confirmed, in that order,
\* whatever the user did to the segment list while the export thread ran.
C35_ExportsConfirmedSegments ==
    (Ended /\ run.exc = "none") => Encoded = run.confirmed

====
